---------------------------- MODULE Spec2Model ----------------------------
(***************************************************************************)
(* Booking, invoicing, package-credit, payment and check-in/out logic of   *)
(* DaycareSystem (src/doggydaycare/daycare/system.py) over the relational  *)
(* schema of src/doggydaycare/daycare/database.py.                         *)
(*                                                                         *)
(* Conventions                                                             *)
(*  - A table is a sequence of rows; the AUTOINCREMENT id of a row is its  *)
(*    index (no facade operation deletes a row).                           *)
(*  - The state is what the facade's single sqlite connection sees.  The   *)
(*    facade never rolls back, so the writes of a call that raised stay in *)
(*    the connection's open transaction, are read by every later call on   *)
(*    the connection and are committed by the next commit.                 *)
(*  - Money (REAL columns, Python floats) is a whole number of cents.      *)
(*  - A timestamp string is [t, fmt]: t the instant (a slot of one day,    *)
(*    slot 0 = midnight), fmt the layout the caller wrote it in.  The      *)
(*    bookings and waitlist tables keep the caller's string as passed; the *)
(*    capacity query compares those TEXT columns with isoformat() output.  *)
(*  - A nullable column is a sequence of length <= 1 (<<>> is NULL), or    *)
(*    NULL == 0 for a nullable row id.                                     *)
(***************************************************************************)
EXTENDS Integers, Sequences, FiniteSets, TLC

(***************************************************************************)
(* Bounds of the model.                                                    *)
(***************************************************************************)
MaxBookings == 2
MaxWaitlist == 2
MaxVaccinations == 2
MaxClientPackages == 2
MaxPayments == 2
MaxSlot == 2
MaxCredits == 2
MaxItems == 2
MaxTransactions == 2
MaxQuantity == 3

(***************************************************************************)
(* Program constants.                                                      *)
(***************************************************************************)
\* GST_RATE = 0.10, as a percentage
GST_RATE == 10
\* a NULL row id (booking_pets.package_id)
NULL == 0
\* dt.date.today() as a day number; the model's bookings are all on this day
Today == 0

(***************************************************************************)
(* The field names of the rows and records below, numbered in the order in *)
(* which every record lists its fields.                                    *)
(***************************************************************************)
Fields ==
    [ op |-> 1, args |-> 2, outcome |-> 3, ret |-> 4, within |-> 5,
      db |-> 6, ok |-> 7, id |-> 8, pkgs |-> 9, lines |-> 10,
      booking_id |-> 11, invoice_id |-> 12, location_id |-> 13,
      client_id |-> 14, pet_id |-> 15, package_id |-> 16, service_id |-> 17,
      booking_pet_id |-> 18, client_package_id |-> 19, waitlist_id |-> 20,
      capacity |-> 21, base_daycare_rate |-> 22, second_pet_discount |-> 23,
      total_credits |-> 24, remaining_credits |-> 25, purchase_date |-> 26,
      start_time |-> 27, end_time |-> 28, requested_start |-> 29,
      requested_end |-> 30, check_out_time |-> 31, pet_ids |-> 32,
      iv |-> 33, t |-> 34, fmt |-> 35, invoice_number |-> 36, status |-> 37,
      services |-> 38, recurrence_rule |-> 39, rule |-> 40,
      deposit_amount |-> 41, use_package_credit |-> 42, expiry_date |-> 43,
      quantity |-> 44, price |-> 45, unit_price |-> 46,
      gst_applicable |-> 47, gst_rate |-> 48, subtotal |-> 49,
      gstable_amount |-> 50, gst_amount |-> 51, total |-> 52,
      balance_due |-> 53, amount |-> 54, method |-> 55, delta |-> 56,
      pet_lines |-> 57, service_lines |-> 58, waitlist |-> 59,
      bookings |-> 60, booking_pets |-> 61, client_packages |-> 62,
      booking_services |-> 63, invoices |-> 64, invoice_line_items |-> 65,
      payments |-> 66, metadata |-> 67, recurring_bookings |-> 68,
      item_id |-> 69, quantity_change |-> 70, pc |-> 71, req |-> 72,
      booked |-> 73 ]

(***************************************************************************)
(* Reference data.  These tables are written once by create_location,      *)
(* add_pet, create_service and create_daycare_package and never updated by *)
(* any facade operation.  Clients are the ids 1 and 2.                     *)
(***************************************************************************)
locations ==
    << [capacity |-> 2, base_daycare_rate |-> 6500, second_pet_discount |-> 20],
       [capacity |-> 1, base_daycare_rate |-> 4999, second_pet_discount |-> 15],
       [capacity |-> 2, base_daycare_rate |-> 4995, second_pet_discount |-> 15] >>

pets == {1, 2}

services ==
    << [price |-> 2500, gst_applicable |-> TRUE],
       [price |-> 1236, gst_applicable |-> TRUE],
       [price |-> 1015, gst_applicable |-> FALSE] >>

daycare_packages ==
    << [total_credits |-> 2], [total_credits |-> 0] >>

(***************************************************************************)
(* Timestamps.                                                             *)
(***************************************************************************)
Slots == 0..MaxSlot

\* "sec"   YYYY-MM-DDTHH:MM:SS  what datetime.isoformat() writes
\* "min"   YYYY-MM-DDTHH:MM     an HTML datetime-local field, as the web
\*                              routes pass request.form["start_time"]
\* "space" YYYY-MM-DD HH:MM:SS  the SQL layout
Formats == {"sec", "min", "space"}

\* dt.datetime.fromisoformat: every layout parses to the instant it denotes
fromisoformat(s) == s.t

\* dt.datetime.isoformat
isoformat(t) == [t |-> t, fmt |-> "sec"]

\* the day of an instant: every day has the instants 0..MaxSlot
DayOf(t) == t \div (MaxSlot + 1)

\* Sort key of the string under SQLite's BINARY collation.  First comes the
\* date prefix YYYY-MM-DD, then the separator (' ' = 0x20 sorts before
\* 'T' = 0x54), then HH:MM, then the suffix (the string without ":SS" is a
\* proper prefix of the one with it).
SepRank(fmt) == IF fmt = "space" THEN 0 ELSE 1
SufRank(fmt) == IF fmt = "min" THEN 0 ELSE 1

\* a < b as TEXT
TextLess(a, b) ==
    \/ DayOf(a.t) < DayOf(b.t)
    \/ /\ DayOf(a.t) = DayOf(b.t)
       /\ \/ SepRank(a.fmt) < SepRank(b.fmt)
          \/ /\ SepRank(a.fmt) = SepRank(b.fmt)
             /\ \/ a.t < b.t
                \/ a.t = b.t /\ SufRank(a.fmt) < SufRank(b.fmt)

\* a <= b as TEXT
TextLessEq(a, b) == ~TextLess(b, a)

\* a date string YYYY-MM-DD parsed by fromisoformat: midnight of that day
DateToInstant(d) == d * (MaxSlot + 1)

(***************************************************************************)
(* Rounding.  round(x, 2) of a Python float, in cents: num/den is the      *)
(* exact value in cents.  An exact half cent is decided by the binary      *)
(* representation of the float operand, which differs between sums that    *)
(* reach the same number of cents, so the caller passes the direction as   *)
(* tie_down.                                                               *)
(***************************************************************************)
IsTie(num, den) == 2 * (num % den) = den

\* truncation instead of rounding
RoundCents_floor(num, den, tie_down) == num \div den

RoundCents(num, den, tie_down) ==
    LET q == num \div den
        r == num % den
    IN  IF 2 * r < den THEN q
        ELSE IF 2 * r > den THEN q + 1
        ELSE IF tie_down THEN q
        ELSE q + 1

RECURSIVE SumSeq(_)
SumSeq(s) == IF s = <<>> THEN 0 ELSE Head(s) + SumSeq(Tail(s))

Min(S) == CHOOSE x \in S : \A y \in S : x <= y
Max(S) == CHOOSE x \in S : \A y \in S : y <= x

(***************************************************************************)
(* State: the tables the facade writes, and the last facade call.          *)
(***************************************************************************)
VARIABLES
    vaccination_records,  \* [pet_id, expiry_date]
    client_packages,      \* [client_id, package_id, remaining_credits,
                          \*  purchase_date, expiry_date (nullable)]
    bookings,             \* [location_id, client_id, start_time, end_time,
                          \*  status, recurrence_rule (nullable)]
    booking_pets,         \* [booking_id, pet_id, package_id, price,
                          \*  gst_applicable]
    booking_services,     \* [booking_id, service_id, quantity, price,
                          \*  gst_applicable]
    waitlist,             \* [location_id, client_id, pet_id,
                          \*  requested_start, requested_end, status]
    checkins,             \* [booking_pet_id, check_out_time (nullable)]
    invoices,             \* [booking_id, client_id, invoice_number, status,
                          \*  subtotal, gst_amount, total, balance_due]
    invoice_line_items,   \* [invoice_id, quantity, unit_price, gst_rate,
                          \*  total]
    payments,             \* [invoice_id, amount, method]
    metadata,             \* year |-> value of key seq_invoice_<year>
    recurring_bookings,   \* [location_id, client_id, rule]
    inventory_items,      \* [quantity]
    inventory_transactions, \* [item_id, quantity_change]
    connections,          \* per connection, the create_booking call it is
                          \*  in: [pc, req, booked]
    last                  \* [op, args, outcome, ret] of the last call

\* the inventory tables
inventory == << inventory_items, inventory_transactions >>

tables ==
    << vaccination_records, client_packages, bookings, booking_pets,
       booking_services, waitlist, checkins, invoices, invoice_line_items,
       payments, metadata, recurring_bookings, inventory >>

vars == << tables, connections, last >>

\* the connections to the one database file, each a DaycareSystem of its own
Conns == {1, 2}

\* a connection that is in no call
Idle == [pc |-> "idle", req |-> <<>>, booked |-> 0]

\* issue_date.year of an instant: the days of the model are one year apart,
\* day Today in year 0 and day Today + 1 in year 1
YearOf(t) == DayOf(t)

Years == { YearOf(DateToInstant(d)) : d \in {Today, Today + 1} }

Init ==
    /\ vaccination_records = <<>>
    /\ client_packages = <<>>
    /\ bookings = <<>>
    /\ booking_pets = <<>>
    /\ booking_services = <<>>
    /\ waitlist = <<>>
    /\ checkins = <<>>
    /\ invoices = <<>>
    /\ invoice_line_items = <<>>
    /\ payments = <<>>
    /\ metadata = [y \in Years |-> 0]
    /\ recurring_bookings = <<>>
    /\ inventory_items = <<>>
    /\ inventory_transactions = <<>>
    /\ connections = [c \in Conns |-> Idle]
    /\ last = [op |-> "init", args |-> <<>>, outcome |-> "ok", ret |-> <<>>]

\* a call that raised ValidationError before its first write
Raise(op, args) ==
    /\ last' = [op |-> op, args |-> args, outcome |-> "ValidationError",
                ret |-> <<>>]
    /\ UNCHANGED << tables, connections >>

(***************************************************************************)
(* record_vaccination                                                      *)
(***************************************************************************)
record_vaccination(pet_id, expiry_date) ==
    LET args == [pet_id |-> pet_id, expiry_date |-> expiry_date]
    IN  IF pet_id \notin pets
        THEN Raise("record_vaccination", args)
        ELSE /\ Len(vaccination_records) < MaxVaccinations
             /\ vaccination_records' = Append(vaccination_records,
                    [pet_id |-> pet_id, expiry_date |-> expiry_date])
             /\ last' = [op |-> "record_vaccination", args |-> args,
                         outcome |-> "ok",
                         ret |-> Len(vaccination_records) + 1]
             /\ UNCHANGED << client_packages, bookings, booking_pets,
                             booking_services, waitlist, checkins, invoices,
                             invoice_line_items, payments, metadata,
                             recurring_bookings,
                             inventory, connections >>

(***************************************************************************)
(* Booking lifecycle: helpers of create_booking                            *)
(***************************************************************************)
\* a vaccination check that only asks for a record, whatever its expiry
_check_vaccination_valid_any(pet_id, reference_date) ==
    \E i \in DOMAIN vaccination_records :
        vaccination_records[i].pet_id = pet_id

\* _check_vaccination_valid: TRUE iff it returns without raising.
\* SELECT MAX(expiry_date) is NULL when the pet has no record.
_check_vaccination_valid(pet_id, reference_date) ==
    LET rows == { i \in DOMAIN vaccination_records :
                    vaccination_records[i].pet_id = pet_id }
    IN  /\ rows # {}
        /\ LET expiry == DateToInstant(
                   Max({ vaccination_records[i].expiry_date : i \in rows }))
           IN  ~(expiry < reference_date)

\* a loop that checks the first requested pet only
AllVaccinated_first(pet_ids, start_dt) ==
    pet_ids = <<>> \/ _check_vaccination_valid(pet_ids[1], start_dt)

\* for pet_id in pet_ids: self._check_vaccination_valid(pet_id, start_dt):
\* TRUE iff no check raises
AllVaccinated(pet_ids, start_dt) ==
    \A k \in DOMAIN pet_ids : _check_vaccination_valid(pet_ids[k], start_dt)

\* _count_pets_booked: the TEXT columns start_time/end_time as stored are
\* compared with start_time.isoformat() and end_time.isoformat()
_count_pets_booked(location_id, start_time, end_time) ==
    Cardinality({ i \in DOMAIN booking_pets :
        LET b == bookings[booking_pets[i].booking_id]
        IN  /\ b.location_id = location_id
            /\ b.status \in {"reserved", "confirmed", "checked_in"}
            /\ ~( \/ TextLessEq(b.end_time, isoformat(start_time))
                  \/ TextLessEq(isoformat(end_time), b.start_time) ) })

\* a sequence that does not read the value persisted in metadata
_get_next_sequence_fresh(meta, name) == 1

\* _get_next_sequence: the value it stores under seq_<name> and returns; a
\* missing row reads as 0
_get_next_sequence(meta, name) == meta[name] + 1

\* _generate_invoice_number: 'INV-<year>-<sequence:05d>'.  Both numbers are
\* written in decimal between fixed separators, so two invoice numbers are
\* equal exactly when their years and their sequences are.
_generate_invoice_number(year, sequence) == << "INV", year, sequence >>

\* a selection that forgets the WHERE client_id = ? filter
SelectPackage_any_client(pkgs, client_id) ==
    IF DOMAIN pkgs = {} THEN NULL ELSE 1

\* the row _redeem_package_credit selects: the client's packages that are
\* not expired today, ORDER BY expiry_date ASC NULLS LAST, purchase_date
\* ASC LIMIT 1 (rows that tie come out in rowid order); NULL when none
SelectPackage(pkgs, client_id) ==
    LET cand == { i \in DOMAIN pkgs :
                    /\ pkgs[i].client_id = client_id
                    /\ \/ pkgs[i].expiry_date = <<>>
                       \/ pkgs[i].expiry_date[1] >= Today }
        Before(i, j) ==
            LET ei == pkgs[i].expiry_date
                ej == pkgs[j].expiry_date
            IN  \/ ei # <<>> /\ ej = <<>>
                \/ ei # <<>> /\ ej # <<>> /\ ei[1] < ej[1]
                \/ /\ ei = ej
                   /\ \/ pkgs[i].purchase_date < pkgs[j].purchase_date
                      \/ /\ pkgs[i].purchase_date = pkgs[j].purchase_date
                         /\ i < j
    IN  IF cand = {} THEN NULL
        ELSE CHOOSE i \in cand : \A j \in cand \ {i} : Before(i, j)

\* a redemption that does not look at the balance it draws from
_redeem_package_credit_unchecked(pkgs, client_id) ==
    LET id == SelectPackage(pkgs, client_id)
    IN  IF id = NULL
        THEN [ok |-> FALSE, id |-> NULL, pkgs |-> pkgs]
        ELSE [ok |-> TRUE, id |-> id,
              pkgs |-> [pkgs EXCEPT ![id].remaining_credits = @ - 1]]

\* _redeem_package_credit on the table pkgs: [ok, id, pkgs]
_redeem_package_credit(pkgs, client_id) ==
    LET id == SelectPackage(pkgs, client_id)
    IN  IF id = NULL
        THEN [ok |-> FALSE, id |-> NULL, pkgs |-> pkgs]
        ELSE IF pkgs[id].remaining_credits <= 0
        THEN [ok |-> FALSE, id |-> NULL, pkgs |-> pkgs]
        ELSE [ok |-> TRUE, id |-> id,
              pkgs |-> [pkgs EXCEPT ![id].remaining_credits = @ - 1]]

\* a price without the discount for the second and later pets
BasePrice_flat(location, idx) == location.base_daycare_rate

\* the price of the pet at input position idx (0-based) before redemption
BasePrice(location, idx) ==
    IF idx >= 1
    THEN RoundCents(location.base_daycare_rate
                        * (100 - location.second_pet_discount), 100, FALSE)
    ELSE location.base_daycare_rate

\* a redeemed pet line that keeps its price
LinePrice_charged(base_price, use_package_credit) == base_price

\* the price a pet line is stored with: base_price = 0 after a redemption
LinePrice(base_price, use_package_credit) ==
    IF use_package_credit THEN 0 ELSE base_price

\* the loop over pet_ids of create_booking, from 1-based position k with
\* the package table and the pet lines written so far; ok is FALSE when
\* _redeem_package_credit raised at some pet (the lines and the credit
\* decrements of the pets before it are written)
RECURSIVE PetLoop(_, _, _, _, _, _, _)
PetLoop(k, pet_ids, booking_id, location, client_id, use_package_credit, acc) ==
    IF k > Len(pet_ids) THEN acc
    ELSE LET r == IF use_package_credit
                  THEN _redeem_package_credit(acc.pkgs, client_id)
                  ELSE [ok |-> TRUE, id |-> NULL, pkgs |-> acc.pkgs]
             base_price == LinePrice(BasePrice(location, k - 1),
                                     use_package_credit)
         IN  IF ~r.ok THEN [acc EXCEPT !.ok = FALSE]
             ELSE PetLoop(k + 1, pet_ids, booking_id, location, client_id,
                     use_package_credit,
                     [ok |-> TRUE, pkgs |-> r.pkgs,
                      lines |-> Append(acc.lines,
                          [booking_id |-> booking_id, pet_id |-> pet_ids[k],
                           package_id |-> r.id, price |-> base_price,
                           gst_applicable |-> base_price > 0])])

\* the loop over services of create_booking; ok is FALSE when get_service
\* raised at some service (the lines of the services before it are written)
RECURSIVE ServiceLoop(_, _, _, _)
ServiceLoop(k, svcs, booking_id, acc) ==
    IF k > Len(svcs) THEN acc
    ELSE IF svcs[k].service_id \notin DOMAIN services
    THEN [acc EXCEPT !.ok = FALSE]
    ELSE LET service == services[svcs[k].service_id]
         IN  ServiceLoop(k + 1, svcs, booking_id,
                 [ok |-> TRUE,
                  lines |-> Append(acc.lines,
                      [booking_id |-> booking_id,
                       service_id |-> svcs[k].service_id,
                       quantity |-> svcs[k].quantity,
                       price |-> service.price,
                       gst_applicable |-> service.gst_applicable])])

\* the amounts _create_invoice_for_booking computes from the pet lines and
\* the service lines
InvoiceAmounts(pet_lines, service_lines, tie_down) ==
    LET subtotal ==
            SumSeq([i \in DOMAIN pet_lines |-> pet_lines[i].price])
            + SumSeq([i \in DOMAIN service_lines |->
                        service_lines[i].price * service_lines[i].quantity])
        gstable_amount ==
            SumSeq([i \in DOMAIN pet_lines |->
                        IF pet_lines[i].gst_applicable
                        THEN pet_lines[i].price ELSE 0])
            + SumSeq([i \in DOMAIN service_lines |->
                        IF service_lines[i].gst_applicable
                        THEN service_lines[i].price * service_lines[i].quantity
                        ELSE 0])
        gst_amount == RoundCents(gstable_amount * GST_RATE, 100, tie_down)
    IN  [subtotal |-> subtotal, gstable_amount |-> gstable_amount,
         gst_amount |-> gst_amount, total |-> subtotal + gst_amount]

\* the rows of invoice_line_items written for an invoice
LineItems(invoice_id, pet_lines, service_lines) ==
    [i \in DOMAIN pet_lines |->
        [invoice_id |-> invoice_id, quantity |-> 1,
         unit_price |-> pet_lines[i].price,
         gst_rate |-> IF pet_lines[i].gst_applicable THEN GST_RATE ELSE 0,
         total |-> pet_lines[i].price]]
    \o
    [i \in DOMAIN service_lines |->
        [invoice_id |-> invoice_id, quantity |-> service_lines[i].quantity,
         unit_price |-> service_lines[i].price,
         gst_rate |-> IF service_lines[i].gst_applicable THEN GST_RATE ELSE 0,
         total |-> service_lines[i].price * service_lines[i].quantity]]

\* a payment that pays an invoice only when it overpays it
PaymentUpdate_strict(invoice, amount) ==
    LET new_balance == invoice.balance_due - amount
    IN  [invoice EXCEPT
            !.balance_due = new_balance,
            !.status = IF new_balance < 0 THEN "paid" ELSE invoice.status]

\* a payment whose overpayment is clamped at a zero balance
PaymentUpdate_clamped(invoice, amount) ==
    LET new_balance == invoice.balance_due - amount
    IN  [invoice EXCEPT
            !.balance_due = IF new_balance < 0 THEN 0 ELSE new_balance,
            !.status = IF new_balance <= 0 THEN "paid" ELSE invoice.status]

\* a payment larger than the balance is not applied to the invoice
PaymentUpdate_capped(invoice, amount) ==
    LET new_balance == invoice.balance_due - amount
    IN  IF new_balance < 0 THEN invoice
        ELSE [invoice EXCEPT
                !.balance_due = new_balance,
                !.status = IF new_balance <= 0 THEN "paid"
                           ELSE invoice.status]

\* the new balance and status record_payment writes for an invoice row
PaymentUpdate(invoice, amount) ==
    LET new_balance == invoice.balance_due - amount
    IN  [invoice EXCEPT
            !.balance_due = new_balance,
            !.status = IF new_balance <= 0 THEN "paid" ELSE invoice.status]

(***************************************************************************)
(* create_booking                                                          *)
(*   req                    the arguments of the call:                     *)
(*   start_time, end_time   timestamp strings                              *)
(*   pet_ids                sequence of pet ids                            *)
(*   svcs                   sequence of [service_id, quantity]             *)
(*   recurrence_rule        nullable                                       *)
(*   deposit_amount         cents                                          *)
(*   tie_down               how round() decides an exact half cent of GST  *)
(***************************************************************************)
\* an ordering check that lets an empty interval through
TimeOrdered_empty(start_dt, end_dt) == ~(end_dt < start_dt)

\* the time ordering create_booking asks for: it raises "End time must be
\* after start time" if end_dt <= start_dt
TimeOrdered(start_dt, end_dt) == ~(end_dt <= start_dt)

\* the arguments of a create_booking call; Request leaves the keyword
\* arguments at their defaults (no services, no recurrence, no deposit, no
\* package credit)
Request(location_id, client_id, start_time, end_time, pet_ids) ==
    [location_id |-> location_id, client_id |-> client_id,
     start_time |-> start_time, end_time |-> end_time, pet_ids |-> pet_ids,
     services |-> <<>>, recurrence_rule |-> <<>>, deposit_amount |-> 0,
     use_package_credit |-> FALSE]

\* only the first requested pet is put on the waitlist
WaitlistEntries_first(req) ==
    << [location_id |-> req.location_id, client_id |-> req.client_id,
        pet_id |-> req.pet_ids[1], requested_start |-> req.start_time,
        requested_end |-> req.end_time, status |-> "pending"] >>

\* the waitlist rows create_booking inserts on the waitlist path, one per
\* requested pet; the status column defaults to 'pending'
WaitlistEntries(req) ==
    [k \in DOMAIN req.pet_ids |->
        [location_id |-> req.location_id, client_id |-> req.client_id,
         pet_id |-> req.pet_ids[k], requested_start |-> req.start_time,
         requested_end |-> req.end_time, status |-> "pending"]]

\* the tables create_booking writes, as they are before the call
Written ==
    [waitlist |-> waitlist, bookings |-> bookings,
     booking_pets |-> booking_pets, client_packages |-> client_packages,
     booking_services |-> booking_services, invoices |-> invoices,
     invoice_line_items |-> invoice_line_items, payments |-> payments,
     metadata |-> metadata, recurring_bookings |-> recurring_bookings]

\* What a create_booking call does once SELECT COUNT(*) in
\* _count_pets_booked has returned count: [outcome, ret, within, db], where
\* db holds the tables as the call leaves them and within says whether the
\* call stays inside the bounds of the model.
Admission(req, tie_down, count) ==
    LET location_id == req.location_id
        client_id == req.client_id
        start_time == req.start_time
        end_time == req.end_time
        pet_ids == req.pet_ids
        svcs == req.services
        recurrence_rule == req.recurrence_rule
        deposit_amount == req.deposit_amount
        use_package_credit == req.use_package_credit
        start_dt == fromisoformat(start_time)
        end_dt == fromisoformat(end_time)
        raised == [outcome |-> "ValidationError", ret |-> <<>>,
                   within |-> ~tie_down, db |-> Written]
    IN
    IF location_id \notin DOMAIN locations
    THEN raised
    ELSE IF ~TimeOrdered(start_dt, end_dt)
    THEN raised
    ELSE IF ~AllVaccinated(pet_ids, start_dt)
    THEN raised
    ELSE
    LET location == locations[location_id]
        booked == count
        capacity == location.capacity
    IN
    IF booked + Len(pet_ids) > capacity
    THEN \* every requested pet goes on the waitlist
         [outcome |-> "waitlisted",
          ret |-> [k \in DOMAIN pet_ids |-> Len(waitlist) + k],
          within |-> ~tie_down /\ Len(waitlist) + Len(pet_ids) <= MaxWaitlist,
          db |-> [Written EXCEPT
                    !.waitlist = waitlist \o WaitlistEntries(req)]]
    ELSE
    LET booking_id == Len(bookings) + 1
        booking == [location_id |-> location_id, client_id |-> client_id,
                    start_time |-> start_time, end_time |-> end_time,
                    status |-> "reserved",
                    recurrence_rule |-> recurrence_rule]
        pl == PetLoop(1, pet_ids, booking_id, location, client_id,
                      use_package_credit,
                      [ok |-> TRUE, pkgs |-> client_packages,
                       lines |-> <<>>])
        sl == ServiceLoop(1, svcs, booking_id,
                          [ok |-> TRUE, lines |-> <<>>])
        \* the booking row, the pet lines and the credit decrements
        db1 == [Written EXCEPT
                    !.bookings = Append(bookings, booking),
                    !.booking_pets = booking_pets \o pl.lines,
                    !.client_packages = pl.pkgs]
        \* ... and the service lines
        db2 == [db1 EXCEPT
                    !.booking_services = booking_services \o sl.lines]
    IN
    IF ~pl.ok
    THEN \* _redeem_package_credit raised: the writes so far stay
         [raised EXCEPT !.within = ~tie_down /\ Len(bookings) < MaxBookings,
                        !.db = db1]
    ELSE IF ~sl.ok
    THEN \* get_service raised: the writes so far stay
         [raised EXCEPT !.within = ~tie_down /\ Len(bookings) < MaxBookings,
                        !.db = db2]
    ELSE \* _create_invoice_for_booking, then the recurring booking
    LET amounts == InvoiceAmounts(pl.lines, sl.lines, tie_down)
        year == YearOf(start_dt)
        sequence == _get_next_sequence(metadata, year)
        invoice_id == Len(invoices) + 1
        issued == [booking_id |-> booking_id, client_id |-> client_id,
                   invoice_number |-> _generate_invoice_number(year, sequence),
                   status |-> "issued",
                   subtotal |-> amounts.subtotal,
                   gst_amount |-> amounts.gst_amount,
                   total |-> amounts.total,
                   balance_due |-> amounts.total]
    IN  [outcome |-> "reserved", ret |-> booking_id,
         within |-> /\ Len(bookings) < MaxBookings
                    /\ tie_down => IsTie(amounts.gstable_amount * GST_RATE, 100),
         db |-> [db2 EXCEPT
            !.metadata = [metadata EXCEPT ![year] = sequence],
            !.invoice_line_items = invoice_line_items \o
                LineItems(invoice_id, pl.lines, sl.lines),
            !.payments =
                IF deposit_amount # 0
                THEN Append(payments,
                        [invoice_id |-> invoice_id,
                         amount |-> deposit_amount, method |-> "deposit"])
                ELSE payments,
            !.invoices =
                IF deposit_amount # 0
                THEN Append(invoices, PaymentUpdate(issued, deposit_amount))
                ELSE Append(invoices, issued),
            !.recurring_bookings =
                IF recurrence_rule # <<>>
                THEN Append(recurring_bookings,
                        [location_id |-> location_id,
                         client_id |-> client_id,
                         rule |-> recurrence_rule[1]])
                ELSE recurring_bookings]]

\* a create_booking call that runs with no other connection writing between
\* its statements: the count is the one of the tables as the call finds them
BookingCall(req, tie_down) ==
    Admission(req, tie_down,
              _count_pets_booked(req.location_id,
                                 fromisoformat(req.start_time),
                                 fromisoformat(req.end_time)))

\* the tables become db; vaccination_records and checkins stay
WriteBack(db) ==
    /\ waitlist' = db.waitlist
    /\ bookings' = db.bookings
    /\ booking_pets' = db.booking_pets
    /\ client_packages' = db.client_packages
    /\ booking_services' = db.booking_services
    /\ invoices' = db.invoices
    /\ invoice_line_items' = db.invoice_line_items
    /\ payments' = db.payments
    /\ metadata' = db.metadata
    /\ recurring_bookings' = db.recurring_bookings
    /\ UNCHANGED << vaccination_records, checkins, inventory, connections >>

create_booking(req, tie_down) ==
    LET call == BookingCall(req, tie_down)
    IN  /\ call.within
        /\ WriteBack(call.db)
        /\ last' = [op |-> "create_booking", args |-> req,
                    outcome |-> call.outcome, ret |-> call.ret]

(***************************************************************************)
(* record_payment                                                          *)
(***************************************************************************)
record_payment(invoice_id, amount, method) ==
    LET args == [invoice_id |-> invoice_id, amount |-> amount,
                 method |-> method]
    IN  IF invoice_id \notin DOMAIN invoices
        THEN Raise("record_payment", args)
        ELSE /\ Len(payments) < MaxPayments
             /\ payments' = Append(payments,
                    [invoice_id |-> invoice_id, amount |-> amount,
                     method |-> method])
             /\ invoices' = [invoices EXCEPT
                    ![invoice_id] = PaymentUpdate(invoices[invoice_id], amount)]
             /\ last' = [op |-> "record_payment", args |-> args,
                         outcome |-> "ok", ret |-> invoice_id]
             /\ UNCHANGED << vaccination_records, client_packages, bookings,
                             booking_pets, booking_services, waitlist,
                             checkins, invoice_line_items, metadata,
                             recurring_bookings,
                             inventory, connections >>

(***************************************************************************)
(* Packages                                                                *)
(***************************************************************************)
sell_package(client_id, package_id, purchase_date, expiry_date) ==
    LET args == [client_id |-> client_id, package_id |-> package_id,
                 purchase_date |-> purchase_date,
                 expiry_date |-> expiry_date]
    IN  IF package_id \notin DOMAIN daycare_packages
        THEN Raise("sell_package", args)
        ELSE /\ Len(client_packages) < MaxClientPackages
             /\ client_packages' = Append(client_packages,
                    [client_id |-> client_id, package_id |-> package_id,
                     remaining_credits |->
                        daycare_packages[package_id].total_credits,
                     purchase_date |-> purchase_date,
                     expiry_date |-> expiry_date])
             /\ last' = [op |-> "sell_package", args |-> args,
                         outcome |-> "ok",
                         ret |-> Len(client_packages) + 1]
             /\ UNCHANGED << vaccination_records, bookings, booking_pets,
                             booking_services, waitlist, checkins, invoices,
                             invoice_line_items, payments, metadata,
                             recurring_bookings,
                             inventory, connections >>

\* the balance adjust_client_package computes
NewBalance(package, delta) == package.remaining_credits + delta

adjust_client_package(client_package_id, delta) ==
    LET args == [client_package_id |-> client_package_id, delta |-> delta]
    IN  IF client_package_id \notin DOMAIN client_packages
        THEN Raise("adjust_client_package", args)
        ELSE LET new_balance ==
                    NewBalance(client_packages[client_package_id], delta)
             IN  IF new_balance < 0
                 THEN Raise("adjust_client_package", args)
                 ELSE /\ new_balance <= MaxCredits
                      /\ client_packages' = [client_packages EXCEPT
                            ![client_package_id].remaining_credits =
                                new_balance]
                      /\ last' = [op |-> "adjust_client_package",
                                  args |-> args, outcome |-> "ok",
                                  ret |-> client_package_id]
                      /\ UNCHANGED << vaccination_records, bookings,
                                      booking_pets, booking_services,
                                      waitlist, checkins, invoices,
                                      invoice_line_items, payments,
                                      metadata, recurring_bookings,
                                      inventory, connections >>

(***************************************************************************)
(* Inventory                                                               *)
(***************************************************************************)
\* create_inventory_item stores the quantity it is given
create_inventory_item(quantity) ==
    /\ Len(inventory_items) < MaxItems
    /\ inventory_items' = Append(inventory_items, [quantity |-> quantity])
    /\ last' = [op |-> "create_inventory_item",
                args |-> [quantity |-> quantity], outcome |-> "ok",
                ret |-> Len(inventory_items) + 1]
    /\ UNCHANGED << vaccination_records, client_packages, bookings,
                    booking_pets, booking_services, waitlist, checkins,
                    invoices, invoice_line_items, payments, metadata,
                    recurring_bookings, inventory_transactions,
                    connections >>

\* the quantity adjust_inventory computes
NewQuantity(item, quantity_change) == item.quantity + quantity_change

adjust_inventory(item_id, quantity_change) ==
    LET args == [item_id |-> item_id, quantity_change |-> quantity_change]
    IN  IF item_id \notin DOMAIN inventory_items
        THEN Raise("adjust_inventory", args)
        ELSE LET new_quantity ==
                    NewQuantity(inventory_items[item_id], quantity_change)
             IN  IF new_quantity < 0
                 THEN Raise("adjust_inventory", args)
                 ELSE /\ new_quantity <= MaxQuantity
                      /\ Len(inventory_transactions) < MaxTransactions
                      /\ inventory_items' = [inventory_items EXCEPT
                             ![item_id].quantity = new_quantity]
                      /\ inventory_transactions' =
                             Append(inventory_transactions,
                                 [item_id |-> item_id,
                                  quantity_change |-> quantity_change])
                      /\ last' = [op |-> "adjust_inventory", args |-> args,
                                  outcome |-> "ok", ret |-> item_id]
                      /\ UNCHANGED << vaccination_records, client_packages,
                                      bookings, booking_pets,
                                      booking_services, waitlist, checkins,
                                      invoices, invoice_line_items,
                                      payments, metadata,
                                      recurring_bookings, connections >>

(***************************************************************************)
(* Check-in and check-out                                                  *)
(***************************************************************************)
\* SELECT ... FROM booking_pets WHERE booking_id = ? AND pet_id = ?,
\* fetchone(): the first such row, NULL when none
BookingPet(booking_id, pet_id) ==
    LET rows == { i \in DOMAIN booking_pets :
                    /\ booking_pets[i].booking_id = booking_id
                    /\ booking_pets[i].pet_id = pet_id
                    /\ booking_id \in DOMAIN bookings }
    IN  IF rows = {} THEN NULL ELSE Min(rows)

\* a lookup that only finds rows without a check-out time
CheckinRows_open(table, booking_pet_id) ==
    { i \in DOMAIN table :
        /\ table[i].booking_pet_id = booking_pet_id
        /\ table[i].check_out_time = <<>> }

\* the checkins rows of a booking pet line
CheckinRows(table, booking_pet_id) ==
    { i \in DOMAIN table : table[i].booking_pet_id = booking_pet_id }

\* a check-in that always inserts a row
Upsert_insert(table, booking_pet_id) ==
    Append(table, [booking_pet_id |-> booking_pet_id,
                   check_out_time |-> <<>>])

\* the checkins table after check_in_pet: the row of the pet line is
\* updated (check_in_time, staff, waiver, health check and notes, none of
\* which the model carries; check_out_time is left as it is) when there is
\* one, and inserted otherwise
Upsert(table, booking_pet_id) ==
    IF CheckinRows(table, booking_pet_id) # {}
    THEN table
    ELSE Append(table, [booking_pet_id |-> booking_pet_id,
                        check_out_time |-> <<>>])

check_in_pet(booking_id, pet_id) ==
    LET args == [booking_id |-> booking_id, pet_id |-> pet_id]
        booking_pet == BookingPet(booking_id, pet_id)
    IN  IF booking_pet = NULL
        THEN Raise("check_in_pet", args)
        ELSE /\ checkins' = Upsert(checkins, booking_pet)
             /\ bookings' = [bookings EXCEPT
                                ![booking_id].status = "checked_in"]
             /\ last' = [op |-> "check_in_pet", args |-> args,
                         outcome |-> "ok", ret |-> booking_pet]
             /\ UNCHANGED << vaccination_records, client_packages,
                             booking_pets, booking_services, waitlist,
                             invoices, invoice_line_items, payments,
                             metadata, recurring_bookings,
                             inventory, connections >>

\* a count that never finds another pet still checked in
Remaining_none(table, booking_id) == 0

\* SELECT COUNT(*) FROM checkins WHERE booking_pet_id IN (the booking's pet
\* lines) AND check_out_time IS NULL
Remaining(table, booking_id) ==
    Cardinality({ i \in DOMAIN table :
        /\ booking_pets[table[i].booking_pet_id].booking_id = booking_id
        /\ table[i].check_out_time = <<>> })

check_out_pet(booking_id, pet_id, check_out_time) ==
    LET args == [booking_id |-> booking_id, pet_id |-> pet_id,
                 check_out_time |-> check_out_time]
        booking_pet == BookingPet(booking_id, pet_id)
    IN  IF booking_pet = NULL
        THEN Raise("check_out_pet", args)
        ELSE IF CheckinRows(checkins, booking_pet) = {}
        THEN Raise("check_out_pet", args)
        ELSE LET stamped ==
                    [i \in DOMAIN checkins |->
                        IF checkins[i].booking_pet_id = booking_pet
                        THEN [checkins[i] EXCEPT
                                !.check_out_time = << check_out_time >>]
                        ELSE checkins[i]]
             IN  /\ checkins' = stamped
                 /\ bookings' =
                        IF Remaining(stamped, booking_id) = 0
                        THEN [bookings EXCEPT
                                ![booking_id].status = "completed"]
                        ELSE bookings
                 /\ last' = [op |-> "check_out_pet", args |-> args,
                             outcome |-> "ok", ret |-> booking_pet]
                 /\ UNCHANGED << vaccination_records, client_packages,
                                 booking_pets, booking_services, waitlist,
                                 invoices, invoice_line_items, payments,
                                 metadata, recurring_bookings,
                                 inventory, connections >>

(***************************************************************************)
(* promote_waitlist                                                        *)
(***************************************************************************)
\* a promotion that deletes the waitlist entry
Converted_delete(table, waitlist_id) ==
    SubSeq(table, 1, waitlist_id - 1)
        \o SubSeq(table, waitlist_id + 1, Len(table))

\* UPDATE waitlist SET status = 'converted' WHERE id = ?
Converted(table, waitlist_id) ==
    [table EXCEPT ![waitlist_id].status = "converted"]

promote_waitlist(waitlist_id, tie_down) ==
    LET args == [waitlist_id |-> waitlist_id]
    IN  IF waitlist_id \notin DOMAIN waitlist
        THEN ~tie_down /\ Raise("promote_waitlist", args)
        ELSE LET entry == waitlist[waitlist_id]
                 call == BookingCall(
                            Request(entry.location_id, entry.client_id,
                                entry.requested_start, entry.requested_end,
                                << entry.pet_id >>), tie_down)
             IN  /\ call.within
                 /\ IF call.outcome = "ValidationError"
                    THEN WriteBack(call.db)
                    ELSE WriteBack([call.db EXCEPT
                            !.waitlist = Converted(@, waitlist_id)])
                 /\ last' = [op |-> "promote_waitlist", args |-> args,
                             outcome |-> call.outcome, ret |-> call.ret]

(***************************************************************************)
(* Inputs of the specifications                                            *)
(***************************************************************************)
Stamp(t, fmt) == [t |-> t, fmt |-> fmt]

\* both pets hold a vaccination that expires after the model's day
Vaccinated ==
    << [pet_id |-> 1, expiry_date |-> Today + 1],
       [pet_id |-> 2, expiry_date |-> Today + 1] >>

PetLists == { << 1 >>, << 1, 2 >> }

\* the state after both pets were vaccinated, holding the given packages
Setup(pkgs) ==
    /\ vaccination_records = Vaccinated
    /\ client_packages = pkgs
    /\ bookings = <<>>
    /\ booking_pets = <<>>
    /\ booking_services = <<>>
    /\ waitlist = <<>>
    /\ checkins = <<>>
    /\ invoices = <<>>
    /\ invoice_line_items = <<>>
    /\ payments = <<>>
    /\ metadata = [y \in Years |-> 0]
    /\ recurring_bookings = <<>>
    /\ inventory_items = <<>>
    /\ inventory_transactions = <<>>
    /\ connections = [c \in Conns |-> Idle]
    /\ last = [op |-> "init", args |-> <<>>, outcome |-> "ok", ret |-> <<>>]

\* the intervals [s, e) of the model's day
Intervals == { iv \in Slots \X Slots : iv[1] < iv[2] }

(***************************************************************************)
(* SpecFormats: capacity admission when callers write timestamps in        *)
(* different layouts.  Starts with both pets vaccinated.                   *)
(***************************************************************************)
\* one-pet requests at location 2 (capacity 1) in every layout, and
\* two-pet requests at location 1 (capacity 2)
FmtRequests ==
    [location_id : {2}, pet_ids : {<< 1 >>}, iv : Intervals, fmt : Formats]
    \cup
    [location_id : {1}, pet_ids : {<< 1, 2 >>}, iv : Intervals,
     fmt : {"sec"}]

FmtCreateBooking ==
    \E r \in FmtRequests, tie_down \in BOOLEAN :
        create_booking(Request(r.location_id, 1, Stamp(r.iv[1], r.fmt),
                               Stamp(r.iv[2], r.fmt), r.pet_ids), tie_down)

FmtPromote ==
    \E waitlist_id \in DOMAIN waitlist, tie_down \in BOOLEAN :
        promote_waitlist(waitlist_id, tie_down)

NextFormats ==
    \/ FmtCreateBooking
    \/ FmtPromote

SpecFormats == Setup(<<>>) /\ [][NextFormats]_vars

(***************************************************************************)
(* SpecVaccination: vaccination gating.  Starts with no vaccination        *)
(* record.                                                                 *)
(***************************************************************************)
VacRecord ==
    \E pet_id \in pets, expiry_date \in {Today, Today + 1} :
        record_vaccination(pet_id, expiry_date)

\* a start at the midnight the Today vaccinations expire at, and one after
VacIntervals == { << 0, 1 >>, << 1, 2 >> }

VacCreateBooking ==
    \E iv \in VacIntervals, pet_ids \in PetLists, tie_down \in BOOLEAN :
        create_booking(Request(1, 1, Stamp(iv[1], "sec"),
                               Stamp(iv[2], "sec"), pet_ids), tie_down)

NextVaccination ==
    \/ VacRecord
    \/ VacCreateBooking

SpecVaccination == Init /\ [][NextVaccination]_vars

(***************************************************************************)
(* SpecBilling: invoices and payments.  Starts with both pets vaccinated.  *)
(***************************************************************************)
\* where and for which pets a booking is requested
BillPlaces ==
    { << 1, << 1, 2 >> >>, << 2, << 1 >> >> }

\* the services of a request: none, or a taxable and a non-taxable one
BillServices ==
    { <<>>,
      << [service_id |-> 2, quantity |-> 1],
         [service_id |-> 3, quantity |-> 2] >> }

BillDeposits == {0, 1000}

BillCreateBooking ==
    \E p \in BillPlaces, svcs \in BillServices, deposit_amount \in BillDeposits,
       tie_down \in BOOLEAN :
        create_booking(
            [Request(p[1], 1, Stamp(0, "sec"), Stamp(1, "sec"), p[2])
                EXCEPT !.services = svcs, !.deposit_amount = deposit_amount],
            tie_down)

\* a payment of the whole balance, of a part of it, or of more than it, to
\* an invoice that exists or (the id after the last) does not
BillRecordPayment ==
    \E invoice_id \in 1..(Len(invoices) + 1) :
        \E amount \in {1000} \cup
                (IF invoice_id \in DOMAIN invoices
                 THEN { invoices[invoice_id].balance_due,
                        invoices[invoice_id].balance_due + 500 }
                 ELSE {}) :
            record_payment(invoice_id, amount, "card")

NextBilling ==
    \/ BillCreateBooking
    \/ BillRecordPayment

SpecBilling == Setup(<<>>) /\ [][NextBilling]_vars

(***************************************************************************)
(* SpecPackages: package credits.  Starts with both pets vaccinated and no *)
(* client package.                                                         *)
(***************************************************************************)
\* package 3 does not exist
PkgSell ==
    \E package_id \in 1..3 :
        sell_package(1, package_id, Today, <<>>)

PkgAdjust ==
    \E client_package_id \in 1..MaxClientPackages, delta \in {-2, 1} :
        adjust_client_package(client_package_id, delta)

PkgCreateBooking ==
    \E pet_ids \in PetLists, tie_down \in BOOLEAN :
        create_booking(
            [Request(1, 1, Stamp(0, "sec"), Stamp(1, "sec"), pet_ids)
                EXCEPT !.use_package_credit = TRUE],
            tie_down)

NextPackages ==
    \/ PkgSell
    \/ PkgAdjust
    \/ PkgCreateBooking

SpecPackages == Setup(<<>>) /\ [][NextPackages]_vars

(***************************************************************************)
(* SpecRedeem: redemption of package credits.  Starts with both pets       *)
(* vaccinated and each client holding a package: client 1 one that expires *)
(* tomorrow, client 2 one that never expires.                              *)
(***************************************************************************)
TwoClients ==
    << [client_id |-> 2, package_id |-> 1, remaining_credits |-> 2,
        purchase_date |-> Today, expiry_date |-> <<>>],
       [client_id |-> 1, package_id |-> 1, remaining_credits |-> 2,
        purchase_date |-> Today, expiry_date |-> << Today + 1 >>] >>

RdAdjust ==
    \E client_package_id \in DOMAIN client_packages, delta \in {-1, 1} :
        adjust_client_package(client_package_id, delta)

RdCreateBooking ==
    \E pet_ids \in PetLists, use_package_credit \in BOOLEAN,
       tie_down \in BOOLEAN :
        create_booking(
            [Request(1, 1, Stamp(0, "sec"), Stamp(1, "sec"), pet_ids)
                EXCEPT !.use_package_credit = use_package_credit],
            tie_down)

NextRedeem ==
    \/ RdAdjust
    \/ RdCreateBooking

SpecRedeem == Setup(TwoClients) /\ [][NextRedeem]_vars

(***************************************************************************)
(* SpecWaitlist: the waitlist path of requests that ask for a deposit, a   *)
(* recurrence and package credits.  Starts with both pets vaccinated and   *)
(* client 1 holding a package with two credits.                            *)
(***************************************************************************)
OnePackage ==
    << [client_id |-> 1, package_id |-> 1, remaining_credits |-> 2,
        purchase_date |-> Today, expiry_date |-> <<>>] >>

\* the keyword arguments of a request: all at their defaults, or all set
WlExtras ==
    { [recurrence_rule |-> <<>>, deposit_amount |-> 0,
       use_package_credit |-> FALSE],
      [recurrence_rule |-> << "weekly" >>, deposit_amount |-> 1000,
       use_package_credit |-> TRUE] }

\* overlapping and adjacent intervals
WlIntervals == { << 0, 2 >>, << 1, 2 >>, << 0, 1 >> }

WlCreateBooking ==
    \E iv \in WlIntervals, pet_ids \in PetLists, x \in WlExtras,
       tie_down \in BOOLEAN :
        create_booking(
            [Request(1, 1, Stamp(iv[1], "sec"), Stamp(iv[2], "sec"), pet_ids)
                EXCEPT !.recurrence_rule = x.recurrence_rule,
                       !.deposit_amount = x.deposit_amount,
                       !.use_package_credit = x.use_package_credit],
            tie_down)

WlPromote ==
    \E waitlist_id \in DOMAIN waitlist, tie_down \in BOOLEAN :
        promote_waitlist(waitlist_id, tie_down)

NextWaitlist ==
    \/ WlCreateBooking
    \/ WlPromote

SpecWaitlist == Setup(OnePackage) /\ [][NextWaitlist]_vars

(***************************************************************************)
(* SpecCheckout: check-in and check-out of the pets of bookings.  Starts   *)
(* with both pets vaccinated.                                              *)
(***************************************************************************)
CoCreateBooking ==
    \E tie_down \in BOOLEAN :
        create_booking(Request(1, 1, Stamp(0, "sec"), Stamp(1, "sec"),
                               << 1, 2 >>), tie_down)

CoCheckIn ==
    \E booking_id \in 1..MaxBookings, pet_id \in pets :
        check_in_pet(booking_id, pet_id)

CoCheckOut ==
    \E booking_id \in 1..MaxBookings, pet_id \in pets :
        check_out_pet(booking_id, pet_id, MaxSlot)

NextCheckout ==
    \/ CoCreateBooking
    \/ CoCheckIn
    \/ CoCheckOut

SpecCheckout == Setup(<<>>) /\ [][NextCheckout]_vars

(***************************************************************************)
(* SpecSequence: invoice numbers of bookings that start in two different   *)
(* years, created by create_booking and by promote_waitlist.  Starts with  *)
(* both pets vaccinated.                                                   *)
(***************************************************************************)
\* an interval in year 0, and one in year 1 that starts at the midnight the
\* vaccinations expire at
SeqIntervals ==
    { << 0, 1 >>,
      << DateToInstant(Today + 1), DateToInstant(Today + 1) + 1 >> }

SeqCreateBooking ==
    \E iv \in SeqIntervals, pet_ids \in PetLists, tie_down \in BOOLEAN :
        create_booking(Request(1, 1, Stamp(iv[1], "sec"),
                               Stamp(iv[2], "sec"), pet_ids), tie_down)

SeqPromote ==
    \E waitlist_id \in 1..(Len(waitlist) + 1), tie_down \in BOOLEAN :
        promote_waitlist(waitlist_id, tie_down)

NextSequence ==
    \/ SeqCreateBooking
    \/ SeqPromote

SpecSequence == Setup(<<>>) /\ [][NextSequence]_vars

(***************************************************************************)
(* SpecPricing: the lines of bookings with and without package credits,    *)
(* with pets in either order and with services.  Starts with both pets     *)
(* vaccinated and client 1 holding a package with two credits.             *)
(***************************************************************************)
PrPetLists == { << 1 >>, << 1, 2 >>, << 2, 1 >> }

\* the services of a request: one taxable service, or a non-taxable and a
\* taxable one
PrServices ==
    { << [service_id |-> 1, quantity |-> 1] >>,
      << [service_id |-> 3, quantity |-> 2],
         [service_id |-> 2, quantity |-> 1] >> }

PrCreateBooking ==
    \E pet_ids \in PrPetLists, svcs \in PrServices,
       use_package_credit \in BOOLEAN, tie_down \in BOOLEAN :
        create_booking(
            [Request(3, 1, Stamp(0, "sec"), Stamp(1, "sec"), pet_ids)
                EXCEPT !.services = svcs,
                       !.use_package_credit = use_package_credit],
            tie_down)

NextPricing ==
    \/ PrCreateBooking

SpecPricing == Setup(OnePackage) /\ [][NextPricing]_vars

(***************************************************************************)
(* SpecLifecycle: every operation of the model on one pet at the location  *)
(* with capacity 1.  Starts with an empty database.                        *)
(***************************************************************************)
LcRecord == record_vaccination(1, Today + 1)

LcSell == sell_package(1, 1, Today, <<>>)

LcCreateBooking ==
    \E tie_down \in BOOLEAN :
        create_booking(Request(2, 1, Stamp(0, "sec"), Stamp(1, "sec"),
                               << 1 >>), tie_down)

LcRecordPayment == record_payment(1, 1000, "card")

LcCheckIn ==
    \E booking_id \in 1..MaxBookings : check_in_pet(booking_id, 1)

LcCheckOut ==
    \E booking_id \in 1..MaxBookings : check_out_pet(booking_id, 1, MaxSlot)

LcPromote ==
    \E waitlist_id \in 1..MaxWaitlist, tie_down \in BOOLEAN :
        promote_waitlist(waitlist_id, tie_down)

NextLifecycle ==
    \/ LcRecord
    \/ LcSell
    \/ LcCreateBooking
    \/ LcRecordPayment
    \/ LcCheckIn
    \/ LcCheckOut
    \/ LcPromote

SpecLifecycle == Init /\ [][NextLifecycle]_vars

(***************************************************************************)
(* SpecInventory: inventory items and their adjustments.  Starts with an   *)
(* empty database.                                                         *)
(***************************************************************************)
InvCreate ==
    \E quantity \in {-1, 0, 2} : create_inventory_item(quantity)

\* item MaxItems + 1 does not exist
InvAdjust ==
    \E item_id \in 1..(MaxItems + 1), quantity_change \in {-2, -1, 1} :
        adjust_inventory(item_id, quantity_change)

NextInventory ==
    \/ InvCreate
    \/ InvAdjust

SpecInventory == Init /\ [][NextInventory]_vars

(***************************************************************************)
(* SpecPayments: payments of any amount.  Starts with both pets            *)
(* vaccinated.                                                             *)
(***************************************************************************)
PayCreateBooking ==
    \E tie_down \in BOOLEAN :
        create_booking(Request(1, 1, Stamp(0, "sec"), Stamp(1, "sec"),
                               << 1 >>), tie_down)

\* a refund, nothing, a part, the balance and more than the balance, to an
\* invoice that exists or (the id after the last) does not
PayRecordPayment ==
    \E invoice_id \in 1..(Len(invoices) + 1) :
        \E amount \in {-500, 0, 1000} \cup
                (IF invoice_id \in DOMAIN invoices
                 THEN { invoices[invoice_id].balance_due,
                        invoices[invoice_id].balance_due + 500 }
                 ELSE {}) :
            record_payment(invoice_id, amount, "cash")

NextPayments ==
    \/ PayCreateBooking
    \/ PayRecordPayment

SpecPayments == Setup(<<>>) /\ [][NextPayments]_vars

(***************************************************************************)
(* SpecOrdering: requests whose end is after, at or before their start.    *)
(* Starts with both pets vaccinated.                                       *)
(***************************************************************************)
\* start and end of a request: end after, at and before start
OrdTimes == { << 0, 1 >>, << 0, 2 >>, << 1, 1 >>, << 1, 0 >> }

OrdCreateBooking ==
    \E iv \in OrdTimes, pet_ids \in PetLists, tie_down \in BOOLEAN :
        create_booking(Request(1, 1, Stamp(iv[1], "sec"),
                               Stamp(iv[2], "sec"), pet_ids), tie_down)

OrdPromote ==
    \E waitlist_id \in DOMAIN waitlist, tie_down \in BOOLEAN :
        promote_waitlist(waitlist_id, tie_down)

NextOrdering ==
    \/ OrdCreateBooking
    \/ OrdPromote

SpecOrdering == Setup(<<>>) /\ [][NextOrdering]_vars

(***************************************************************************)
(* SpecPromote: promotions of the entries of a two-pet request that the    *)
(* location with capacity 1 cannot take, with check-in and check-out.      *)
(* Starts with both pets vaccinated.                                       *)
(***************************************************************************)
PrmCreateBooking ==
    \E tie_down \in BOOLEAN :
        create_booking(Request(2, 1, Stamp(0, "sec"), Stamp(1, "sec"),
                               << 1, 2 >>), tie_down)

PrmPromote ==
    \E waitlist_id \in 1..MaxWaitlist, tie_down \in BOOLEAN :
        promote_waitlist(waitlist_id, tie_down)

PrmCheckIn ==
    \E booking_id \in 1..MaxBookings, pet_id \in pets :
        check_in_pet(booking_id, pet_id)

PrmCheckOut ==
    \E booking_id \in 1..MaxBookings, pet_id \in pets :
        check_out_pet(booking_id, pet_id, MaxSlot)

NextPromote ==
    \/ PrmCreateBooking
    \/ PrmPromote
    \/ PrmCheckIn
    \/ PrmCheckOut

SpecPromote == Setup(<<>>) /\ [][NextPromote]_vars

(***************************************************************************)
(* SpecConcurrent: create_booking calls on two connections to one database *)
(* file, interleaved between their SQL statements.  get_connection leaves  *)
(* sqlite3's default isolation: the SELECTs of a call run outside any      *)
(* transaction and read what is committed, the first INSERT opens the      *)
(* transaction, and from there to the commit the connection holds the one  *)
(* write lock of the file (the other connection's INSERT waits for it      *)
(* under busy_timeout), so the rows of a call appear to the other          *)
(* connection together.  Starts with both pets vaccinated.                 *)
(***************************************************************************)
\* create_booking from its first statement to the return of
\* _count_pets_booked: the checks that raise, then the count
create_booking_read(c, req) ==
    LET start_dt == fromisoformat(req.start_time)
        end_dt == fromisoformat(req.end_time)
    IN  /\ connections[c].pc = "idle"
        /\ IF \/ req.location_id \notin DOMAIN locations
              \/ ~TimeOrdered(start_dt, end_dt)
              \/ ~AllVaccinated(req.pet_ids, start_dt)
           THEN Raise("create_booking", req)
           ELSE /\ connections' = [connections EXCEPT ![c] =
                        [pc |-> "counted", req |-> req,
                         booked |-> _count_pets_booked(req.location_id,
                                                       start_dt, end_dt)]]
                /\ UNCHANGED << tables, last >>

\* a call that counts again once it holds the write lock
create_booking_write_recount(c, tie_down) ==
    /\ connections[c].pc = "counted"
    /\ LET req == connections[c].req
           call == BookingCall(req, tie_down)
       IN  /\ call.within
           /\ waitlist' = call.db.waitlist
           /\ bookings' = call.db.bookings
           /\ booking_pets' = call.db.booking_pets
           /\ client_packages' = call.db.client_packages
           /\ booking_services' = call.db.booking_services
           /\ invoices' = call.db.invoices
           /\ invoice_line_items' = call.db.invoice_line_items
           /\ payments' = call.db.payments
           /\ metadata' = call.db.metadata
           /\ recurring_bookings' = call.db.recurring_bookings
           /\ connections' = [connections EXCEPT ![c] = Idle]
           /\ last' = [op |-> "create_booking", args |-> req,
                       outcome |-> call.outcome, ret |-> call.ret]
           /\ UNCHANGED << vaccination_records, checkins, inventory >>

\* create_booking from the comparison of the count with the capacity to its
\* return: the inserts and the commits
create_booking_write(c, tie_down) ==
    /\ connections[c].pc = "counted"
    /\ LET req == connections[c].req
           call == Admission(req, tie_down, connections[c].booked)
       IN  /\ call.within
           /\ waitlist' = call.db.waitlist
           /\ bookings' = call.db.bookings
           /\ booking_pets' = call.db.booking_pets
           /\ client_packages' = call.db.client_packages
           /\ booking_services' = call.db.booking_services
           /\ invoices' = call.db.invoices
           /\ invoice_line_items' = call.db.invoice_line_items
           /\ payments' = call.db.payments
           /\ metadata' = call.db.metadata
           /\ recurring_bookings' = call.db.recurring_bookings
           /\ connections' = [connections EXCEPT ![c] = Idle]
           /\ last' = [op |-> "create_booking", args |-> req,
                       outcome |-> call.outcome, ret |-> call.ret]
           /\ UNCHANGED << vaccination_records, checkins, inventory >>

\* one-pet requests at location 2 (capacity 1)
CcRequests ==
    { Request(2, 1, Stamp(iv[1], "sec"), Stamp(iv[2], "sec"), << pet_id >>) :
        iv \in { << 0, 2 >>, << 1, 2 >> }, pet_id \in pets }

CcRead == \E c \in Conns, req \in CcRequests : create_booking_read(c, req)

CcWrite ==
    \E c \in Conns, tie_down \in BOOLEAN : create_booking_write(c, tie_down)

NextConcurrent ==
    \/ CcRead
    \/ CcWrite

SpecConcurrent == Setup(<<>>) /\ [][NextConcurrent]_vars

(***************************************************************************)
(* Claims                                                                  *)
(***************************************************************************)
\* the pet lines on bookings at a location with status reserved or
\* checked_in whose interval overlaps [start_dt, end_dt), as instants
OverlappingPetLines(location_id, start_dt, end_dt) ==
    Cardinality({ i \in DOMAIN booking_pets :
        LET b == bookings[booking_pets[i].booking_id]
        IN  /\ b.location_id = location_id
            /\ b.status \in {"reserved", "checked_in"}
            /\ fromisoformat(b.start_time) < end_dt
            /\ start_dt < fromisoformat(b.end_time) })

\* C1: a create_booking request with end after start and all pets validly
\* vaccinated is waitlisted, and creates no booking row, when the pet lines
\* already booked over an overlapping interval at the location plus the
\* requested pets exceed the capacity, and creates a booking otherwise.
C1_CapacityAdmission ==
    [][ ( /\ last'.op = "create_booking"
          /\ fromisoformat(last'.args.start_time)
                < fromisoformat(last'.args.end_time)
          /\ \A k \in DOMAIN last'.args.pet_ids :
                _check_vaccination_valid(last'.args.pet_ids[k],
                    fromisoformat(last'.args.start_time)) )
        => LET a == last'.args
               existing == OverlappingPetLines(a.location_id,
                               fromisoformat(a.start_time),
                               fromisoformat(a.end_time))
           IN  IF existing + Len(a.pet_ids) > locations[a.location_id].capacity
               THEN last'.outcome = "waitlisted" /\ bookings' = bookings
               ELSE /\ last'.outcome = "reserved"
                    /\ Len(bookings') = Len(bookings) + 1
      ]_vars

\* the vaccination records of a pet
RecordsOf(pet_id) ==
    { i \in DOMAIN vaccination_records :
        vaccination_records[i].pet_id = pet_id }

\* the pet has a record, and its latest expiry is before the instant
Expired(pet_id, instant) ==
    /\ RecordsOf(pet_id) # {}
    /\ \A i \in RecordsOf(pet_id) :
            DateToInstant(vaccination_records[i].expiry_date) < instant

\* C2: create_booking raises ValidationError whenever a requested pet has
\* no vaccination record or a latest expiry earlier than the booking start,
\* and creates no booking for such a request.
C2_VaccinationRequired ==
    [][ ( /\ last'.op = "create_booking"
          /\ \E k \in DOMAIN last'.args.pet_ids :
                \/ RecordsOf(last'.args.pet_ids[k]) = {}
                \/ Expired(last'.args.pet_ids[k],
                           fromisoformat(last'.args.start_time)) )
        => /\ last'.outcome = "ValidationError"
           /\ bookings' = bookings
           /\ booking_pets' = booking_pets
      ]_vars

\* a two-pet request was rejected because the second pet's only record
\* had expired by the start, the first pet being validly vaccinated
C2_Witness ==
    /\ last.op = "create_booking"
    /\ last.outcome = "ValidationError"
    /\ Len(last.args.pet_ids) = 2
    /\ _check_vaccination_valid(last.args.pet_ids[1],
                                fromisoformat(last.args.start_time))
    /\ Expired(last.args.pet_ids[2], fromisoformat(last.args.start_time))


\* the pet lines and the service lines of a booking
PetLinesOf(booking_id) ==
    { i \in DOMAIN booking_pets : booking_pets[i].booking_id = booking_id }

ServiceLinesOf(booking_id) ==
    { i \in DOMAIN booking_services :
        booking_services[i].booking_id = booking_id }

RECURSIVE SumOver(_, _)
SumOver(S, f) ==
    IF S = {} THEN 0
    ELSE LET x == CHOOSE y \in S : TRUE
         IN  f[x] + SumOver(S \ {x}, f)

\* the subtotal of a booking: all its pet-line prices plus price x quantity
\* of all its service lines
SubtotalOf(booking_id) ==
    SumOver(PetLinesOf(booking_id),
            [i \in DOMAIN booking_pets |-> booking_pets[i].price])
    + SumOver(ServiceLinesOf(booking_id),
              [i \in DOMAIN booking_services |->
                  booking_services[i].price * booking_services[i].quantity])

\* the taxable amount of a booking: its taxable pet-line prices plus
\* price x quantity of its service lines flagged gst_applicable
TaxableOf(booking_id) ==
    SumOver({ i \in PetLinesOf(booking_id) : booking_pets[i].gst_applicable },
            [i \in DOMAIN booking_pets |-> booking_pets[i].price])
    + SumOver({ i \in ServiceLinesOf(booking_id) :
                    booking_services[i].gst_applicable },
              [i \in DOMAIN booking_services |->
                  booking_services[i].price * booking_services[i].quantity])

\* g (whole cents) is 10% of the amount t (whole cents) rounded to the
\* nearest cent; an exact half cent may go either way
NearestTenth(g, t) ==
    /\ 10 * g - t <= 5
    /\ t - 10 * g <= 5

\* C3: for every invoice produced by create_booking, in whole cents,
\* gst_amount is 10% of the taxable amount of its booking rounded to the
\* cent and total is subtotal + gst_amount, where subtotal sums every pet
\* line and every service line and the taxable amount only the taxable ones.
C3_InvoiceAmounts ==
    \A i \in DOMAIN invoices :
        LET inv == invoices[i]
        IN  /\ inv.subtotal = SubtotalOf(inv.booking_id)
            /\ NearestTenth(inv.gst_amount, TaxableOf(inv.booking_id))
            /\ inv.total = inv.subtotal + inv.gst_amount

\* an invoice over a non-taxable service line, whose GST is not a whole
\* number of cents before rounding and is rounded up
C3_Witness ==
    \E i \in DOMAIN invoices :
        LET b == invoices[i].booking_id
        IN  /\ \E j \in ServiceLinesOf(b) : ~booking_services[j].gst_applicable
            /\ \E j \in ServiceLinesOf(b) : booking_services[j].gst_applicable
            /\ SubtotalOf(b) > TaxableOf(b)
            /\ (TaxableOf(b) % 10) > 5
            /\ 10 * invoices[i].gst_amount > TaxableOf(b)

\* the sum of remaining_credits over the packages of a client in a table
CreditsOf(pkgs, client_id) ==
    SumSeq([i \in DOMAIN pkgs |->
                IF pkgs[i].client_id = client_id
                THEN pkgs[i].remaining_credits ELSE 0])

\* the pet lines a step appends to booking_pets
NewPetLines == (DOMAIN booking_pets') \ (DOMAIN booking_pets)

\* C4: a create_booking with use_package_credit and n pets that creates a
\* booking lowers the client's total remaining_credits by exactly n, one per
\* pet line, each line naming the client's package it drew from, and changes
\* no package of another client; a redemption for a client whose packages
\* hold no credit fails with ValidationError.
C4_CreditRedemption ==
    [][ ( /\ last'.op = "create_booking"
          /\ last'.args.use_package_credit )
        => LET a == last'.args
               n == Len(a.pet_ids)
           IN  /\ last'.outcome = "reserved" =>
                    /\ CreditsOf(client_packages', a.client_id)
                          = CreditsOf(client_packages, a.client_id) - n
                    /\ Cardinality(NewPetLines) = n
                    /\ \A l \in NewPetLines :
                          /\ booking_pets'[l].package_id
                                \in DOMAIN client_packages
                          /\ client_packages[booking_pets'[l].package_id]
                                .client_id = a.client_id
                    /\ DOMAIN client_packages' = DOMAIN client_packages
                    /\ \A p \in DOMAIN client_packages :
                          client_packages'[p].remaining_credits =
                            client_packages[p].remaining_credits
                            - Cardinality({ l \in NewPetLines :
                                  booking_pets'[l].package_id = p })
               /\ ( /\ last'.outcome # "waitlisted"
                    /\ CreditsOf(client_packages, a.client_id) <= 0 )
                    => last'.outcome = "ValidationError"
               /\ \A p \in DOMAIN client_packages' :
                      client_packages'[p].remaining_credits >= 0
      ]_vars

\* a two-pet booking was created on credits of client 1 while client 2
\* held a package with credits
C4_Witness ==
    /\ last.op = "create_booking"
    /\ last.outcome = "reserved"
    /\ last.args.use_package_credit
    /\ Len(last.args.pet_ids) = 2
    /\ \E p \in DOMAIN client_packages :
          /\ client_packages[p].client_id # last.args.client_id
          /\ client_packages[p].remaining_credits > 0
    /\ \A l \in PetLinesOf(last.ret) : booking_pets[l].package_id # NULL

\* C5: record_payment on an existing invoice with the amount of its
\* balance_due sets balance_due to 0 and status to 'paid'; with a smaller
\* amount it leaves the status and lowers balance_due by the amount.
C5_PaymentStatus ==
    [][ ( /\ last'.op = "record_payment"
          /\ last'.args.invoice_id \in DOMAIN invoices )
        => LET id == last'.args.invoice_id
               amount == last'.args.amount
           IN  /\ amount = invoices[id].balance_due =>
                    /\ invoices'[id].balance_due = 0
                    /\ invoices'[id].status = "paid"
               /\ amount < invoices[id].balance_due =>
                    /\ invoices'[id].status = invoices[id].status
                    /\ invoices'[id].balance_due
                          = invoices[id].balance_due - amount
      ]_vars

\* an issued invoice took a part payment and then the payment of the rest
C5_Witness ==
    /\ last.op = "record_payment"
    /\ last.outcome = "ok"
    /\ invoices[last.args.invoice_id].status = "paid"
    /\ invoices[last.args.invoice_id].balance_due = 0
    /\ \E p \in DOMAIN payments :
          /\ payments[p].invoice_id = last.args.invoice_id
          /\ payments[p].method = "card"
          /\ payments[p].amount < invoices[last.args.invoice_id].total
          /\ payments[p].amount # last.args.amount

\* the check-in rows of a booking with no check-out time, other than the
\* row of one pet line
OthersCheckedIn(booking_id, booking_pet_id) ==
    { i \in DOMAIN checkins :
        /\ booking_pets[checkins[i].booking_pet_id].booking_id = booking_id
        /\ checkins[i].booking_pet_id # booking_pet_id
        /\ checkins[i].check_out_time = <<>> }

\* C6: a check_out_pet that checks out the last pet of the booking still
\* checked in sets the booking's status to 'completed'; while another pet of
\* the booking has a check-in row with no check-out time it leaves the
\* status as it is.
C6_CheckoutCompletes ==
    [][ ( /\ last'.op = "check_out_pet"
          /\ last'.outcome = "ok" )
        => LET b == last'.args.booking_id
           IN  IF OthersCheckedIn(b, last'.ret) = {}
               THEN bookings'[b].status = "completed"
               ELSE /\ bookings'[b].status = bookings[b].status
                    /\ bookings'[b].status # "completed"
      ]_vars

\* one pet of a two-pet booking was checked out while the other is still
\* checked in
C6_Witness ==
    /\ last.op = "check_out_pet"
    /\ last.outcome = "ok"
    /\ Cardinality(PetLinesOf(last.args.booking_id)) = 2
    /\ OthersCheckedIn(last.args.booking_id, last.ret) # {}
    /\ bookings[last.args.booking_id].status = "checked_in"

\* the payment rows of an invoice
PaymentsOf(invoice_id) ==
    { p \in DOMAIN payments : payments[p].invoice_id = invoice_id }

\* C7: every invoice has balance_due = total - the sum of the amounts of its
\* payment rows; the invoice of a booking just created with a non-zero
\* deposit_amount has exactly one payment row, of that amount and method
\* 'deposit', and one created without deposit has none.
C7_BalanceInvariant ==
    /\ \A i \in DOMAIN invoices :
          invoices[i].balance_due = invoices[i].total
              - SumOver(PaymentsOf(i),
                        [p \in DOMAIN payments |-> payments[p].amount])
    /\ ( last.op = "create_booking" /\ last.outcome = "reserved" ) =>
          \A i \in DOMAIN invoices :
              invoices[i].booking_id = last.ret =>
                  IF last.args.deposit_amount # 0
                  THEN \E p \in PaymentsOf(i) :
                          /\ PaymentsOf(i) = {p}
                          /\ payments[p].amount = last.args.deposit_amount
                          /\ payments[p].method = "deposit"
                  ELSE PaymentsOf(i) = {}

\* an invoice created with a deposit was then overpaid
C7_Witness ==
    \E i \in DOMAIN invoices :
        /\ invoices[i].balance_due < 0
        /\ Cardinality(PaymentsOf(i)) = 2
        /\ \E p \in PaymentsOf(i) : payments[p].method = "deposit"

\* C8: after any sequence of sell_package, create_booking with
\* use_package_credit and adjust_client_package every client package has
\* remaining_credits >= 0; an adjust_client_package whose delta would make
\* the balance negative raises ValidationError and leaves it unchanged.
C8_CreditsNonNegative ==
    [][ /\ \A p \in DOMAIN client_packages' :
              client_packages'[p].remaining_credits >= 0
        /\ ( /\ last'.op = "adjust_client_package"
             /\ last'.args.client_package_id \in DOMAIN client_packages
             /\ client_packages[last'.args.client_package_id]
                    .remaining_credits + last'.args.delta < 0 )
            => /\ last'.outcome = "ValidationError"
               /\ client_packages' = client_packages
      ]_vars

\* an adjustment below zero was refused on a package that a booking had
\* drawn down to one credit
C8_Witness ==
    /\ last.op = "adjust_client_package"
    /\ last.outcome = "ValidationError"
    /\ last.args.client_package_id \in DOMAIN client_packages
    /\ client_packages[last.args.client_package_id].remaining_credits = 1
    /\ \E l \in DOMAIN booking_pets :
          booking_pets[l].package_id = last.args.client_package_id

\* C9: every booking row has exactly one invoice.
C9_OneInvoicePerBooking ==
    \A b \in DOMAIN bookings :
        Cardinality({ i \in DOMAIN invoices : invoices[i].booking_id = b }) = 1

\* C10: a create_booking that takes the waitlist path appends exactly one
\* 'pending' waitlist entry per requested pet, in order, returns their ids,
\* and leaves bookings, booking lines, invoices, payments, the invoice
\* sequence, recurring bookings and client packages unchanged.
C10_WaitlistAllOrNothing ==
    [][ ( /\ last'.op = "create_booking"
          /\ last'.outcome = "waitlisted" )
        => LET a == last'.args
               n == Len(a.pet_ids)
           IN  /\ Len(waitlist') = Len(waitlist) + n
               /\ SubSeq(waitlist', 1, Len(waitlist)) = waitlist
               /\ \A k \in 1..n :
                     /\ waitlist'[Len(waitlist) + k].pet_id = a.pet_ids[k]
                     /\ waitlist'[Len(waitlist) + k].status = "pending"
                     /\ waitlist'[Len(waitlist) + k].client_id = a.client_id
                     /\ waitlist'[Len(waitlist) + k].location_id
                            = a.location_id
                     /\ last'.ret[k] = Len(waitlist) + k
               /\ Len(last'.ret) = n
               /\ UNCHANGED << bookings, booking_pets, booking_services,
                               invoices, invoice_line_items, payments,
                               metadata, recurring_bookings,
                               client_packages >>
      ]_vars

\* a two-pet request with a deposit, a recurrence rule and package credits
\* was waitlisted while the client held credits
C10_Witness ==
    /\ last.op = "create_booking"
    /\ last.outcome = "waitlisted"
    /\ Len(last.args.pet_ids) = 2
    /\ last.args.use_package_credit
    /\ last.args.deposit_amount # 0
    /\ last.args.recurrence_rule # <<>>
    /\ CreditsOf(client_packages, last.args.client_id) > 0
    /\ Len(waitlist) >= 2

\* the packages of a client in a table that are not expired today and hold
\* at least one credit
Available(pkgs, client_id) ==
    { p \in DOMAIN pkgs :
        /\ pkgs[p].client_id = client_id
        /\ \/ pkgs[p].expiry_date = <<>>
           \/ pkgs[p].expiry_date[1] >= Today
        /\ pkgs[p].remaining_credits > 0 }

\* package p expires no later than package q (one without expiry comes
\* last), and was bought no later when both expire together
NoLater(pkgs, p, q) ==
    LET ep == pkgs[p].expiry_date
        eq == pkgs[q].expiry_date
    IN  \/ ep # <<>> /\ eq = <<>>
        \/ ep # <<>> /\ eq # <<>> /\ ep[1] < eq[1]
        \/ ep = eq /\ pkgs[p].purchase_date <= pkgs[q].purchase_date

\* C11: a create_booking with use_package_credit that passes validation and
\* capacity draws the credit of its first pet line from a package that is
\* earliest-expiring (then earliest-bought) among the client's non-expired
\* packages with remaining_credits > 0, and it raises ValidationError only
\* when those packages hold fewer credits than the request has pets.
C11_EarliestAvailablePackage ==
    [][ ( /\ last'.op = "create_booking"
          /\ last'.args.use_package_credit
          /\ last'.outcome # "waitlisted" )
        => LET a == last'.args
               avail == Available(client_packages, a.client_id)
           IN  /\ last'.outcome = "ValidationError" =>
                    SumOver(avail, [p \in DOMAIN client_packages |->
                                client_packages[p].remaining_credits])
                        < Len(a.pet_ids)
               /\ avail # {} =>
                    /\ Len(booking_pets') > Len(booking_pets)
                    /\ LET p == booking_pets'[Len(booking_pets) + 1].package_id
                       IN  /\ p \in avail
                           /\ \A q \in avail : NoLater(client_packages, p, q)
      ]_vars


\* C12: a create_booking call that raises ValidationError leaves every
\* table as it was before the call, for every later call to see: no booking
\* row, pet line, service line or credit decrement of the failed call stays.
C12_FailedBookingWritesNothing ==
    [][ ( /\ last'.op = "create_booking"
          /\ last'.outcome = "ValidationError" )
        => /\ bookings' = bookings
           /\ booking_pets' = booking_pets
           /\ booking_services' = booking_services
           /\ client_packages' = client_packages
      ]_vars


\* the invoices issued in a year, and the sequence an invoice number carries
InvoicesOfYear(y) ==
    { i \in DOMAIN invoices : invoices[i].invoice_number[2] = y }

SequenceOf(i) == invoices[i].invoice_number[3]

\* C13: every invoice number is INV-<issue year>-<sequence>, the issue year
\* being the year its booking starts in; within each year the first invoice
\* created carries sequence 1 and every later one a strictly greater
\* sequence, the greatest being the value persisted in metadata; no two
\* invoices carry the same invoice number.
C13_InvoiceSequence ==
    /\ \A i \in DOMAIN invoices :
          /\ invoices[i].invoice_number[1] = "INV"
          /\ invoices[i].invoice_number[2]
                = YearOf(fromisoformat(
                      bookings[invoices[i].booking_id].start_time))
    /\ \A y \in Years :
          /\ InvoicesOfYear(y) # {} =>
                /\ SequenceOf(Min(InvoicesOfYear(y))) = 1
                /\ metadata[y] = SequenceOf(Max(InvoicesOfYear(y)))
          /\ \A i, j \in InvoicesOfYear(y) :
                i < j => SequenceOf(i) < SequenceOf(j)
    /\ \A i, j \in DOMAIN invoices :
          i # j => invoices[i].invoice_number # invoices[j].invoice_number

\* two invoices of year 1, the second one created by promote_waitlist, after
\* a request of that year was waitlisted
C13_Witness ==
    /\ last.op = "promote_waitlist"
    /\ last.outcome = "reserved"
    /\ Cardinality(InvoicesOfYear(1)) = 2
    /\ InvoicesOfYear(0) = {}
    /\ metadata[1] = 2


\* p (whole cents) is the rate (whole cents) less discount percent, rounded
\* to the nearest cent
Discounted(p, rate, discount) ==
    /\ 100 * p - rate * (100 - discount) <= 50
    /\ rate * (100 - discount) - 100 * p <= 50

\* the service lines a step appends to booking_services
NewServiceLines == (DOMAIN booking_services') \ (DOMAIN booking_services)

\* C14: a create_booking without package credit that creates a booking
\* appends exactly one pet line per requested pet, in input order, and one
\* service line per requested service; the pet at input position 0 is priced
\* at the location's base_daycare_rate and every later one at that rate less
\* second_pet_discount percent rounded to the cent, whichever pets they are.
C14_LinePricing ==
    [][ ( /\ last'.op = "create_booking"
          /\ ~last'.args.use_package_credit
          /\ last'.outcome = "reserved" )
        => LET a == last'.args
               n == Len(a.pet_ids)
               m == Len(a.services)
               location == locations[a.location_id]
           IN  /\ NewPetLines = (Len(booking_pets) + 1)..(Len(booking_pets) + n)
               /\ \A k \in 1..n :
                     LET line == booking_pets'[Len(booking_pets) + k]
                     IN  /\ line.booking_id = last'.ret
                         /\ line.pet_id = a.pet_ids[k]
                         /\ line.package_id = NULL
                         /\ IF k = 1
                            THEN line.price = location.base_daycare_rate
                            ELSE Discounted(line.price,
                                            location.base_daycare_rate,
                                            location.second_pet_discount)
               /\ NewServiceLines
                     = (Len(booking_services) + 1)..(Len(booking_services) + m)
               /\ \A k \in 1..m :
                     LET line == booking_services'[Len(booking_services) + k]
                     IN  /\ line.booking_id = last'.ret
                         /\ line.service_id = a.services[k].service_id
                         /\ line.quantity = a.services[k].quantity
                         /\ line.price = services[line.service_id].price
      ]_vars

\* a booking of pets 2 and 1, in that order, with two services and no
\* credit: pet 2 at the base rate, pet 1 at a discounted price that was
\* rounded up to the cent
C14_Witness ==
    /\ last.op = "create_booking"
    /\ last.outcome = "reserved"
    /\ ~last.args.use_package_credit
    /\ last.args.pet_ids = << 2, 1 >>
    /\ Len(last.args.services) = 2
    /\ \E l \in PetLinesOf(last.ret) :
          /\ booking_pets[l].pet_id = 1
          /\ 100 * booking_pets[l].price
                > locations[last.args.location_id].base_daycare_rate
                    * (100 - locations[last.args.location_id].second_pet_discount)
    /\ \E l \in PetLinesOf(last.ret) :
          /\ booking_pets[l].pet_id = 2
          /\ booking_pets[l].price
                = locations[last.args.location_id].base_daycare_rate


\* C15: every pet line of a create_booking with use_package_credit that
\* creates a booking is stored with price 0 and not taxable, and the invoice
\* of the booking has the subtotal and the taxable amount of its service
\* lines alone; with one taxable service of price p and quantity 1 the total
\* is p plus 10% of p rounded to the cent.
C15_RedeemedLinesFree ==
    [][ ( /\ last'.op = "create_booking"
          /\ last'.args.use_package_credit
          /\ last'.outcome = "reserved" )
        => LET a == last'.args
               inv == invoices'[Len(invoices')]
               svc_total ==
                   SumSeq([k \in DOMAIN a.services |->
                       services[a.services[k].service_id].price
                           * a.services[k].quantity])
               svc_taxable ==
                   SumSeq([k \in DOMAIN a.services |->
                       IF services[a.services[k].service_id].gst_applicable
                       THEN services[a.services[k].service_id].price
                                * a.services[k].quantity
                       ELSE 0])
           IN  /\ NewPetLines # {}
               /\ \A l \in NewPetLines :
                     /\ booking_pets'[l].price = 0
                     /\ ~booking_pets'[l].gst_applicable
                     /\ booking_pets'[l].package_id # NULL
               /\ Len(invoices') = Len(invoices) + 1
               /\ inv.booking_id = last'.ret
               /\ inv.subtotal = svc_total
               /\ NearestTenth(inv.gst_amount, svc_taxable)
               /\ inv.total = svc_total + inv.gst_amount
               /\ ( /\ Len(a.services) = 1
                    /\ a.services[1].quantity = 1
                    /\ services[a.services[1].service_id].gst_applicable )
                  => LET p == services[a.services[1].service_id].price
                     IN  /\ NearestTenth(inv.total - p, p)
                         /\ inv.balance_due = inv.total
      ]_vars

\* a booking of two pets, both redeemed, with one taxable service
C15_Witness ==
    /\ last.op = "create_booking"
    /\ last.outcome = "reserved"
    /\ last.args.use_package_credit
    /\ Len(last.args.pet_ids) = 2
    /\ Len(last.args.services) = 1
    /\ services[last.args.services[1].service_id].gst_applicable
    /\ \A l \in PetLinesOf(last.ret) : booking_pets[l].price = 0
    /\ \E i \in DOMAIN invoices :
          /\ invoices[i].booking_id = last.ret
          /\ invoices[i].total = 2750


\* C16: promote_waitlist with an unknown waitlist id raises ValidationError
\* and leaves every table unchanged; on an existing entry, when the pet lines
\* booked over an interval overlapping the entry's plus one fit the capacity
\* of its location, it appends one booking for the entry's location, client,
\* start and end with exactly one pet line, for the entry's pet and drawn
\* from no package, and one invoice of that booking, leaves the client
\* packages unchanged and sets the entry's status to 'converted'.
C16_PromoteWaitlist ==
    [][ last'.op = "promote_waitlist"
        => LET id == last'.args.waitlist_id
           IN  IF id \notin DOMAIN waitlist
               THEN /\ last'.outcome = "ValidationError"
                    /\ UNCHANGED tables
               ELSE LET e == waitlist[id]
                        room ==
                            OverlappingPetLines(e.location_id,
                                fromisoformat(e.requested_start),
                                fromisoformat(e.requested_end)) + 1
                            <= locations[e.location_id].capacity
                    IN  room =>
                          /\ last'.outcome = "reserved"
                          /\ Len(bookings') = Len(bookings) + 1
                          /\ last'.ret = Len(bookings')
                          /\ bookings'[last'.ret].location_id = e.location_id
                          /\ bookings'[last'.ret].client_id = e.client_id
                          /\ bookings'[last'.ret].start_time = e.requested_start
                          /\ bookings'[last'.ret].end_time = e.requested_end
                          /\ NewPetLines = { Len(booking_pets) + 1 }
                          /\ \A l \in NewPetLines :
                                /\ booking_pets'[l].booking_id = last'.ret
                                /\ booking_pets'[l].pet_id = e.pet_id
                                /\ booking_pets'[l].package_id = NULL
                          /\ Len(invoices') = Len(invoices) + 1
                          /\ invoices'[Len(invoices')].booking_id = last'.ret
                          /\ client_packages' = client_packages
                          /\ waitlist'[id].status = "converted"
      ]_vars


\* every row id of the table old is a row id of the table new
Kept(old, new) == DOMAIN old \subseteq DOMAIN new

\* C17: no step removes a row: every vaccination record, booking, booking
\* pet line, invoice, payment, waitlist entry and client package that exists
\* before a step exists after it, for the same pet, booking or client (the
\* clients and the pets of the model are fixed sets).
C17_NoHardDelete ==
    [][ /\ Kept(vaccination_records, vaccination_records')
        /\ \A i \in DOMAIN vaccination_records :
              vaccination_records'[i] = vaccination_records[i]
        /\ Kept(bookings, bookings')
        /\ \A i \in DOMAIN bookings :
              /\ bookings'[i].client_id = bookings[i].client_id
              /\ bookings'[i].start_time = bookings[i].start_time
        /\ Kept(booking_pets, booking_pets')
        /\ \A i \in DOMAIN booking_pets : booking_pets'[i] = booking_pets[i]
        /\ Kept(invoices, invoices')
        /\ \A i \in DOMAIN invoices :
              invoices'[i].invoice_number = invoices[i].invoice_number
        /\ Kept(payments, payments')
        /\ \A i \in DOMAIN payments : payments'[i] = payments[i]
        /\ Kept(waitlist, waitlist')
        /\ \A i \in DOMAIN waitlist :
              /\ waitlist'[i].pet_id = waitlist[i].pet_id
              /\ waitlist'[i].requested_start = waitlist[i].requested_start
        /\ Kept(client_packages, client_packages')
        /\ \A i \in DOMAIN client_packages :
              client_packages'[i].client_id = client_packages[i].client_id
      ]_vars

\* a waitlist entry was promoted to a booking after the booking in its way
\* was completed, with a payment recorded and a package sold: the converted
\* entry, the completed booking and both invoices are all there
C17_Witness ==
    /\ last.op = "promote_waitlist"
    /\ last.outcome = "reserved"
    /\ waitlist[last.args.waitlist_id].status = "converted"
    /\ \E b \in DOMAIN bookings : bookings[b].status = "completed"
    /\ Len(invoices) = 2
    /\ Len(payments) >= 1
    /\ Len(client_packages) >= 1
    /\ Len(vaccination_records) = 2


\* C18: in every state every inventory item has quantity >= 0; an
\* adjust_inventory that would take the quantity below 0 raises
\* ValidationError and leaves the item and the transaction log unchanged;
\* an accepted one adds quantity_change to the quantity and appends exactly
\* one transaction row, for that item and that change.
C18_InventoryNonNegative ==
    [][ /\ \A i \in DOMAIN inventory_items' :
              inventory_items'[i].quantity >= 0
        /\ ( /\ last'.op = "adjust_inventory"
             /\ last'.args.item_id \in DOMAIN inventory_items )
            => LET id == last'.args.item_id
                   change == last'.args.quantity_change
               IN  IF inventory_items[id].quantity + change < 0
                   THEN /\ last'.outcome = "ValidationError"
                        /\ UNCHANGED inventory
                   ELSE /\ last'.outcome = "ok"
                        /\ inventory_items' = [inventory_items EXCEPT
                              ![id].quantity = @ + change]
                        /\ inventory_transactions' =
                              Append(inventory_transactions,
                                  [item_id |-> id, quantity_change |-> change])
      ]_vars


\* C19: record_payment on an existing invoice succeeds whatever the amount,
\* appends one payment row of that amount and lowers balance_due by it; when
\* the amount is larger than balance_due the balance becomes negative by
\* exactly the excess and the status 'paid'.  record_payment on an invoice
\* id that does not exist raises ValidationError and leaves payments and
\* invoices unchanged.
C19_PaymentsUnbounded ==
    [][ last'.op = "record_payment"
        => LET id == last'.args.invoice_id
               amount == last'.args.amount
           IN  IF id \in DOMAIN invoices
               THEN /\ last'.outcome = "ok"
                    /\ payments' = Append(payments,
                          [invoice_id |-> id, amount |-> amount,
                           method |-> last'.args.method])
                    /\ invoices'[id].balance_due
                          = invoices[id].balance_due - amount
                    /\ amount > invoices[id].balance_due =>
                          /\ invoices'[id].balance_due < 0
                          /\ - invoices'[id].balance_due
                                = amount - invoices[id].balance_due
                          /\ invoices'[id].status = "paid"
               ELSE /\ last'.outcome = "ValidationError"
                    /\ payments' = payments
                    /\ invoices' = invoices
      ]_vars

\* an invoice that was still owed in part took a payment of more than its
\* balance and now has a negative balance_due
C19_Witness ==
    /\ last.op = "record_payment"
    /\ last.outcome = "ok"
    /\ invoices[last.args.invoice_id].status = "paid"
    /\ invoices[last.args.invoice_id].balance_due = -500
    /\ Cardinality(PaymentsOf(last.args.invoice_id)) = 2
    /\ last.args.amount < invoices[last.args.invoice_id].total
    /\ last.args.amount > 0


\* C20: in every state, every pet line of a booking with status 'completed'
\* has a check-in row that carries a check-out time.
C20_CompletedMeansAllOut ==
    \A b \in DOMAIN bookings :
        bookings[b].status = "completed" =>
            \A l \in PetLinesOf(b) :
                \E c \in CheckinRows(checkins, l) :
                    checkins[c].check_out_time # <<>>


\* C21: in every state every booking pet line has at most one check-in row,
\* and right after a successful check_in_pet the pet line has exactly one
\* and the booking's status is 'checked_in'.
C21_CheckInUpsert ==
    /\ \A l \in DOMAIN booking_pets :
          Cardinality(CheckinRows(checkins, l)) <= 1
    /\ ( last.op = "check_in_pet" /\ last.outcome = "ok" ) =>
          /\ Cardinality(CheckinRows(checkins, last.ret)) = 1
          /\ bookings[last.args.booking_id].status = "checked_in"

\* a pet that had been checked in and out was checked in again: its only
\* row still carries the check-out time
C21_Witness ==
    /\ last.op = "check_in_pet"
    /\ last.outcome = "ok"
    /\ \E c \in CheckinRows(checkins, last.ret) :
          checkins[c].check_out_time # <<>>
    /\ Cardinality(CheckinRows(checkins, last.ret)) = 1
    /\ Len(checkins) = 2


\* the check-in rows of a pet line
RowsOfLine(table, l) ==
    { c \in DOMAIN table : table[c].booking_pet_id = l }

\* C22: check_in_pet or check_out_pet for a pet with no line on the booking,
\* and check_out_pet for a pet line with no check-in row, raise
\* ValidationError and change no check-in row and no booking; check_out_pet
\* for a pet line with a check-in row succeeds and stamps the row, also when
\* the row already carries a check-out time.
C22_CheckExistenceOnly ==
    [][ last'.op \in {"check_in_pet", "check_out_pet"}
        => LET line == BookingPet(last'.args.booking_id, last'.args.pet_id)
           IN  IF \/ line = NULL
                  \/ /\ last'.op = "check_out_pet"
                     /\ RowsOfLine(checkins, line) = {}
               THEN /\ last'.outcome = "ValidationError"
                    /\ checkins' = checkins
                    /\ bookings' = bookings
               ELSE /\ last'.outcome = "ok"
                    /\ last'.op = "check_out_pet" =>
                          \A c \in RowsOfLine(checkins', line) :
                              checkins'[c].check_out_time
                                  = << last'.args.check_out_time >>
      ]_vars

\* a check-out was refused for a pet of the booking that has no check-in
\* row, after the other pet of the booking was checked in and out
C22_Witness ==
    /\ last.op = "check_out_pet"
    /\ last.outcome = "ValidationError"
    /\ BookingPet(last.args.booking_id, last.args.pet_id) # NULL
    /\ RowsOfLine(checkins,
            BookingPet(last.args.booking_id, last.args.pet_id)) = {}
    /\ \E c \in DOMAIN checkins :
          /\ booking_pets[checkins[c].booking_pet_id].booking_id
                = last.args.booking_id
          /\ checkins[c].check_out_time # <<>>


\* C23: a create_booking whose end time is at or before its start time
\* raises ValidationError and leaves every table unchanged, and after every
\* step every booking and every waitlist entry has its end strictly after
\* its start.
C23_EndAfterStart ==
    [][ /\ ( /\ last'.op = "create_booking"
             /\ fromisoformat(last'.args.end_time)
                    <= fromisoformat(last'.args.start_time) )
            => /\ last'.outcome = "ValidationError"
               /\ UNCHANGED tables
        /\ \A b \in DOMAIN bookings' :
              fromisoformat(bookings'[b].start_time)
                  < fromisoformat(bookings'[b].end_time)
        /\ \A w \in DOMAIN waitlist' :
              fromisoformat(waitlist'[w].requested_start)
                  < fromisoformat(waitlist'[w].requested_end)
      ]_vars

\* a request for an empty interval was refused at a location that holds a
\* booking and a waitlist entry
C23_Witness ==
    /\ last.op = "create_booking"
    /\ last.outcome = "ValidationError"
    /\ fromisoformat(last.args.end_time) = fromisoformat(last.args.start_time)
    /\ Len(bookings) >= 1
    /\ Len(waitlist) >= 1


\* C24: a create_booking whose end is after its start and that names a pet
\* with no vaccination record, or whose latest expiry is before the start,
\* raises ValidationError and leaves every table unchanged (no booking and
\* no waitlist entry for any requested pet), whether or not the location is
\* full and whatever the vaccinations of the other requested pets; a
\* request whose end is not after its start raises whatever the pets.
C24_ValidationOrder ==
    [][ last'.op = "create_booking"
        => LET a == last'.args
               start_dt == fromisoformat(a.start_time)
               end_dt == fromisoformat(a.end_time)
           IN  ( \/ end_dt <= start_dt
                 \/ \E k \in DOMAIN a.pet_ids :
                       \/ RecordsOf(a.pet_ids[k]) = {}
                       \/ Expired(a.pet_ids[k], start_dt) )
               => /\ last'.outcome = "ValidationError"
                  /\ waitlist' = waitlist
                  /\ UNCHANGED tables
      ]_vars

\* a two-pet request was refused for its second pet, the first being
\* validly vaccinated, at a location that is full over the interval
C24_Witness ==
    /\ last.op = "create_booking"
    /\ last.outcome = "ValidationError"
    /\ Len(last.args.pet_ids) = 2
    /\ RecordsOf(last.args.pet_ids[1]) # {}
    /\ ~Expired(last.args.pet_ids[1], fromisoformat(last.args.start_time))
    /\ \/ RecordsOf(last.args.pet_ids[2]) = {}
       \/ Expired(last.args.pet_ids[2], fromisoformat(last.args.start_time))
    /\ OverlappingPetLines(last.args.location_id,
            fromisoformat(last.args.start_time),
            fromisoformat(last.args.end_time))
          >= locations[last.args.location_id].capacity
    /\ waitlist = <<>>


\* the pet lines on bookings at a location with status reserved or
\* checked_in whose interval [start, end) contains the instant t
PetLinesAt(location_id, t) ==
    { i \in DOMAIN booking_pets :
        LET b == bookings[booking_pets[i].booking_id]
        IN  /\ b.location_id = location_id
            /\ b.status \in {"reserved", "checked_in"}
            /\ fromisoformat(b.start_time) <= t
            /\ t < fromisoformat(b.end_time) }

\* C25: in every state, for every location and every instant (the starts of
\* the bookings are enough), the pet lines on reserved or checked_in
\* bookings whose interval contains the instant are at most the capacity.
C25_CapacityInvariant ==
    \A location_id \in DOMAIN locations :
        \A b \in DOMAIN bookings :
            Cardinality(PetLinesAt(location_id,
                            fromisoformat(bookings[b].start_time)))
                <= locations[location_id].capacity


\* C26: a promote_waitlist on an existing entry sets its status to
\* 'converted' only if the call created a booking for it; when the location
\* is full for the entry's interval the entry keeps the status 'pending'
\* and the waitlist does not grow.
C26_ConvertedOnlyIfBooked ==
    [][ ( /\ last'.op = "promote_waitlist"
          /\ last'.args.waitlist_id \in DOMAIN waitlist )
        => LET id == last'.args.waitlist_id
               e == waitlist[id]
           IN  /\ ( /\ waitlist[id].status # "converted"
                    /\ waitlist'[id].status = "converted" )
                    => Len(bookings') = Len(bookings) + 1
               /\ OverlappingPetLines(e.location_id,
                      fromisoformat(e.requested_start),
                      fromisoformat(e.requested_end)) + 1
                    > locations[e.location_id].capacity
                    => /\ waitlist'[id].status = waitlist[id].status
                       /\ Len(waitlist') = Len(waitlist)
      ]_vars


\* C27: in every state an invoice has status 'paid' exactly when its
\* balance_due is at most 0.
C27_PaidIffSettled ==
    \A i \in DOMAIN invoices :
        invoices[i].status = "paid" <=> invoices[i].balance_due <= 0


\* the position of a booking status in reserved -> checked_in -> completed
StatusRank(status) ==
    CASE status = "reserved" -> 1
      [] status = "checked_in" -> 2
      [] status = "completed" -> 3
      [] OTHER -> 0

\* C28: after every step every booking has one of the statuses reserved,
\* checked_in and completed, no step moves a booking's status backwards,
\* and a booking that is 'completed' stays 'completed'.
C28_StatusForwardOnly ==
    [][ /\ \A b \in DOMAIN bookings' :
              bookings'[b].status \in {"reserved", "checked_in", "completed"}
        /\ \A b \in DOMAIN bookings :
              /\ StatusRank(bookings[b].status)
                    <= StatusRank(bookings'[b].status)
              /\ bookings[b].status = "completed"
                    => bookings'[b].status = "completed"
      ]_vars


\* C29: a promote_waitlist on an entry whose status is already 'converted'
\* creates no booking and no invoice.
C29_OneBookingPerEntry ==
    [][ ( /\ last'.op = "promote_waitlist"
          /\ last'.args.waitlist_id \in DOMAIN waitlist
          /\ waitlist[last'.args.waitlist_id].status = "converted" )
        => /\ bookings' = bookings
           /\ invoices' = invoices
      ]_vars


\* the pet lines of reserved or checked_in bookings of the tables bks and
\* lines at the location over intervals that overlap [start_dt, end_dt)
PetLinesOver(bks, lines, location_id, start_dt, end_dt) ==
    { i \in DOMAIN lines :
        LET b == bks[lines[i].booking_id]
        IN  /\ b.location_id = location_id
            /\ b.status \in {"reserved", "checked_in"}
            /\ fromisoformat(b.start_time) < end_dt
            /\ start_dt < fromisoformat(b.end_time) }

\* C30 as claimed: when the create_booking call of a connection is admitted
\* (it returns a booking), the pet lines of reserved or checked_in bookings
\* at the location over intervals overlapping the request, the new ones
\* included, are at most the capacity, whatever the other connection did
\* between the call's count and its inserts.
C30_ConcurrentAdmission ==
    [][ \A c \in Conns :
          ( /\ connections[c].pc = "counted"
            /\ connections'[c].pc = "idle"
            /\ last'.outcome = "reserved" )
          => LET req == connections[c].req
             IN  Cardinality(PetLinesOver(bookings', booking_pets',
                                 req.location_id,
                                 fromisoformat(req.start_time),
                                 fromisoformat(req.end_time)))
                   <= locations[req.location_id].capacity
      ]_vars

\* C30, amended: a create_booking call that runs on one of two connections
\* is waitlisted exactly when the overlapping-pet count it read plus its own
\* pets exceeds the capacity, and otherwise inserts its booking (here: is
\* admitted); the rows the other connection inserted after that count do
\* not enter the decision, so two such calls can both be admitted.
C30_AdmissionByCountRead ==
    [][ \A c \in Conns :
          ( /\ connections[c].pc = "counted"
            /\ connections'[c].pc = "idle" )
          => LET req == connections[c].req
                 fits == connections[c].booked + Len(req.pet_ids)
                            <= locations[req.location_id].capacity
             IN  /\ last'.outcome = (IF fits THEN "reserved"
                                              ELSE "waitlisted")
                 /\ fits => Len(bookings') = Len(bookings) + 1
                 /\ ~fits => bookings' = bookings
      ]_vars

\* two calls that read the count before either inserted were both admitted:
\* the last call returned a booking and the location holds more pets over
\* its interval than its capacity
C30_Witness ==
    /\ last.op = "create_booking"
    /\ last.outcome = "reserved"
    /\ Cardinality(PetLinesOver(bookings, booking_pets,
                       last.args.location_id,
                       fromisoformat(last.args.start_time),
                       fromisoformat(last.args.end_time)))
          > locations[last.args.location_id].capacity
====
